---- MODULE Spec2Model ----
(***************************************************************************)
(* The Tado connector (custom_components/tado/tado_connector.py) and the   *)
(* config-entry glue that drives it (custom_components/tado/__init__.py).  *)
(*                                                                         *)
(* Conventions of the translation                                          *)
(*   - a Python string is a TLA+ string; "" stands for None and for every  *)
(*     other falsy value of a field that the code only tests with `or`;    *)
(*   - a device key ("VA02:VA1") is the sequence of its ":"-separated      *)
(*     segments (<<"VA02", "VA1">>), so that `":" in key` is Len(key) > 1  *)
(*     and key.split(":", 1)[1] is Tail(key);                              *)
(*   - a dict is a function; an optional value is <<>> (None) or <<v>>;    *)
(*   - an offset or a temperature is an integer number of hundredths of a  *)
(*     degree;                                                             *)
(*   - a method that can raise is an operator on a context record          *)
(*     [c, exc, tr, rs]: the connector's fields, the exception in flight   *)
(*     ("" for none), the events (remote calls, stores, notifications) of  *)
(*     the running operation, in order, and the history runtime_set.       *)
(***************************************************************************)
EXTENDS Integers, Sequences, FiniteSets, TLC

VARIABLES
    connector,   \* the TadoConnector object's fields
    runtime_set, \* history: device key -> offset last recorded by set_temperature_offset
    op,          \* the last operation: its name, inputs, escaped exception and events
    entry,       \* the config entry: load state, result of async_setup_entry, standing triggers
    home         \* the remote installation: what get_me answers and the devices it lists

vars == <<connector, runtime_set, op, entry, home>>

----------------------------------------------------------------------------
(* Bounds of the model *)

\* number of zones of the home
MaxZones == 2
\* number of distinct payload versions the remote can return for one resource
MaxVer == 2
\* number of remote calls that fail within one operation
MaxFaults == 1

\* offset writes of the auto-adjustment the remote fails in the life of a home
MaxRejections == 1

----------------------------------------------------------------------------
(* Generic helpers: dicts, optionals, falsy-or *)

NoExc == ""

EmptyDict == [k \in {} |-> 0]

DictGet(d, k) == IF k \in DOMAIN d THEN <<d[k]>> ELSE <<>>

DictSet(d, k, v) == [x \in (DOMAIN d) \cup {k} |-> IF x = k THEN v ELSE d[x]]

\* Python's `a or b` on strings
Or2(a, b) == IF a # "" THEN a ELSE b

HasColon(key) == Len(key) > 1

\* key.split(":", 1)[1]
LegacyKey(key) == Tail(key)

----------------------------------------------------------------------------
(* The remote installation: what the API client can return *)

ZoneIds == 1..MaxZones

Versions == 1..MaxVer

\* str(zone_id)
Str(n) == CASE n = 1 -> "1" [] n = 2 -> "2" [] n = 3 -> "3" [] OTHER -> "n"

\* Raw device records of the remote listing. VA1 is a radiator valve that
\* carries every serial form, RU1 a room unit with the legacy short serial
\* only, and the bridge IB has no serial-like identifier at all.
RawVA == [type |-> "", deviceType |-> "VA02", model |-> "", productType |-> "",
          serialNumber |-> "VA1", serialNo |-> "VA1",
          shortSerialNo |-> "VA1", id |-> "", name |-> "", device_key |-> <<>>, caps |-> TRUE]

RawRU == [type |-> "", deviceType |-> "RU01", model |-> "", productType |-> "",
          serialNumber |-> "", serialNo |-> "RU1",
          shortSerialNo |-> "RU1", id |-> "", name |-> "", device_key |-> <<>>, caps |-> TRUE]

RawIB == [type |-> "IB01", deviceType |-> "", model |-> "", productType |-> "",
          serialNumber |-> "", serialNo |-> "",
          shortSerialNo |-> "", id |-> "", name |-> "", device_key |-> <<>>, caps |-> FALSE]

RawDevices == {RawVA, RawRU, RawIB}

\* What get_me can return: no homes, a home without id, a home without
\* name, a legacy-generation home, a LINE_X home
MeResults == {"no_homes", "no_id", "no_name", "PRE_LINE_X", "LINE_X"}

\* Exceptions a remote call can raise: PyTado's TadoException, RuntimeError,
\* and the requests family (RequestException subclasses)
RequestExceptions == {"Timeout", "ConnectionError", "HTTPError"}

Exceptions == {"TadoException", "RuntimeError"} \cup RequestExceptions

\* A remote method that answers with an {"errors": ...} mapping instead of raising
ErrorsPayload == "errors"

----------------------------------------------------------------------------
(* Device keys, types and identifier overrides *)

\* str.upper() on the type names of the listings
Upper(s) == CASE s = "va02" -> "VA02" [] s = "ru01" -> "RU01" [] OTHER -> s

\* a type taken as the listing spells it
GetDeviceTypeAsSpelled(device_info) ==
    Or2(device_info.type,
        Or2(device_info.deviceType, Or2(device_info.model, device_info.productType)))

\* TadoConnector._get_device_type; "" for None
GetDeviceType(device_info) ==
    Upper(Or2(device_info.type,
              Or2(device_info.deviceType, Or2(device_info.model, device_info.productType))))

\* TadoConnector.get_device_key; index is -1 for None
GetDeviceKey(device_info, index) ==
    IF device_info.device_key # <<>> THEN device_info.device_key
    ELSE LET device_type == Or2(GetDeviceType(device_info), "UNKNOWN")
             serial == Or2(device_info.serialNumber,
                           Or2(device_info.serialNo, device_info.shortSerialNo))
         IN IF serial # "" THEN <<device_type, serial>>
            ELSE IF device_info.id # "" THEN <<device_type, device_info.id>>
            ELSE IF device_info.name # "" THEN <<device_type, device_info.name>>
            ELSE IF index >= 0 THEN <<device_type, "#" \o Str(index + 1)>>
            ELSE <<device_type>>

\* TadoConnector.get_device_id_override; "" for None
GetDeviceIdOverride(c, device_info, device_key) ==
    IF device_key \in DOMAIN c.device_id_overrides THEN c.device_id_overrides[device_key]
    ELSE IF HasColon(device_key) /\ LegacyKey(device_key) \in DOMAIN c.device_id_overrides
         THEN c.device_id_overrides[LegacyKey(device_key)]
    ELSE LET device_type == GetDeviceType(device_info)
         IN IF device_type # "" /\ device_type \in DOMAIN c.device_type_id_overrides
            THEN c.device_type_id_overrides[device_type]
            ELSE IF "*" \in DOMAIN c.device_type_id_overrides
                 THEN c.device_type_id_overrides["*"] ELSE ""

\* TadoConnector._normalize_device (index counts from 0)
NormalizeDevice(c, device, index) ==
    LET device_key == GetDeviceKey(device, index)
        d1 == [device EXCEPT !.device_key = device_key]
        has_serial == d1.serialNumber # "" \/ d1.serialNo # "" \/ d1.shortSerialNo # ""
        override == GetDeviceIdOverride(c, d1, device_key)
    IN IF ~has_serial /\ override # ""
       THEN [d1 EXCEPT !.serialNumber = override, !.serialNo = override,
                       !.shortSerialNo = override,
                       !.id = IF d1.id = "" THEN override ELSE d1.id]
       ELSE d1

\* the list comprehension of setup(): every device of the listing, normalized
RECURSIVE NormalizeAll(_, _, _)
NormalizeAll(c, listing, i) ==
    IF i > Len(listing) THEN <<>>
    ELSE <<NormalizeDevice(c, listing[i], i - 1)>> \o NormalizeAll(c, listing, i + 1)

\* serialNumber or serialNo or shortSerialNo or id
RawDeviceId(device) ==
    Or2(device.serialNumber, Or2(device.serialNo, Or2(device.shortSerialNo, device.id)))

----------------------------------------------------------------------------
(* The offset layers *)

\* TadoConnector.get_device_offset with an explicit device_key
GetDeviceOffsetByKey(c, device_info, device_key) ==
    LET cur == c.device_offsets_current
        first == DictGet(cur, device_key)
        offset == IF first = <<>> /\ HasColon(device_key)
                  THEN DictGet(cur, LegacyKey(device_key)) ELSE first
        device_id == RawDeviceId(device_info)
    IN IF offset # <<>> THEN offset
       ELSE IF device_id # "" /\ <<device_id>> \in DOMAIN cur THEN DictGet(cur, <<device_id>>)
       ELSE <<>>

\* TadoConnector.get_device_offset(device_info): device_key is None
GetDeviceOffset(c, device_info) ==
    GetDeviceOffsetByKey(c, device_info, GetDeviceKey(device_info, -1))

\* _set_current_offset without the legacy-suffix alias
SetCurrentOffsetFullKeyOnly(cur, device_key, offset) == DictSet(cur, device_key, offset)

\* TadoConnector._set_current_offset, on the current-offset dict
SetCurrentOffset(cur, device_key, offset) ==
    LET c1 == DictSet(cur, device_key, offset)
    IN IF HasColon(device_key) THEN DictSet(c1, LegacyKey(device_key), offset) ELSE c1

\* TadoConnector._lookup_device_key_for_id; <<>> for None
RECURSIVE LookupDeviceKeyForId(_, _, _)
LookupDeviceKeyForId(devices, device_id, i) ==
    IF i > Len(devices) THEN <<>>
    ELSE IF RawDeviceId(devices[i]) # "" /\ RawDeviceId(devices[i]) = device_id
         THEN (IF devices[i].device_key # <<>> THEN devices[i].device_key
               ELSE GetDeviceKey(devices[i], i - 1))
         ELSE LookupDeviceKeyForId(devices, device_id, i + 1)

----------------------------------------------------------------------------
(* Contexts, events and the remote's behaviour during one operation *)

\* the context of a running operation: the connector, the exception raised,
\* the events so far, the entry's runtime data and the local date
\* (dt_util.now().date(), a day number) the operation runs on
Ctx(c, rs) == [c |-> c, exc |-> NoExc, tr |-> <<>>, rs |-> rs, today |-> 0]

\* an event of the running operation: a remote call with its outcome, a
\* store into connector.data, a dispatcher_send notification
Ev(kind, what, arg, out) == <<kind, what, arg, out>>

Log(R, e) == [R EXCEPT !.tr = Append(@, e)]

Raise(R, x) == [R EXCEPT !.exc = x]

\* the device ids the remote is called with (a call site is <<method, argument>>)
DeviceIds == {"VA1", "RU1", "IB9"}

\* HTTP statuses an HTTPError can carry
HttpStatuses == {400, 401, 404, 499, 500, 503}

\* The remote's behaviour during one operation: the sites that fail (at most
\* MaxFaults of them) and how, what get_me answers, the device listing and
\* the version of every payload fetched, and the inside temperature the zone
\* states carry (<<>> when they carry none).
NoFaultPlan ==
    [faults |-> {}, kind |-> "TadoException", status |-> 500, me |-> "PRE_LINE_X",
     listing |-> <<RawVA, RawRU>>, mobiles |-> <<"M1">>, ver |-> 1, temp |-> <<2000>>]

FaultSets(sites) == {f \in SUBSET sites : Cardinality(f) <= MaxFaults}

\* every way the given sites can fail with the given kinds of failure
FaultPlans(sites, kinds) ==
    {[NoFaultPlan EXCEPT !.faults = f, !.kind = k] :
        f \in FaultSets(sites) \ {{}}, k \in kinds} \cup {NoFaultPlan}

Outcome(plan, method, arg) ==
    IF <<method, arg>> \in plan.faults THEN plan.kind ELSE "ok"

\* a reset that takes the new date and keeps the count
ResetDateOnly(R) ==
    IF R.today # R.c.api_call_date
    THEN Log([R EXCEPT !.c.api_call_date = R.today],
             Ev("log", "api_call_counter_reset", "", [date |-> R.today]))
    ELSE R

\* TadoConnector._reset_api_call_counter_if_needed, with its log record,
\* which is formatted from the new date
ResetApiCallCounterIfNeeded(R) ==
    IF R.today # R.c.api_call_date
    THEN Log([R EXCEPT !.c.api_call_date = R.today, !.c.api_call_count = 0],
             Ev("log", "api_call_counter_reset", "", [date |-> R.today]))
    ELSE R

\* TadoConnector._track_api_call (count = 1): the count event tells whether
\* SIGNAL_TADO_API_CALLS_UPDATED was sent
TrackApiCall(R) ==
    LET R1 == ResetApiCallCounterIfNeeded(R)
        R2 == [R1 EXCEPT !.c.api_call_count = @ + 1]
    IN Log(R2, Ev("count", "api_calls", "",
                  IF R2.c.home_id # 0 THEN "signalled" ELSE "silent"))

\* a call made without being counted
ApiCallUncounted(R, method, arg, out) == Log(R, Ev("call", method, arg, out))

\* TadoConnector._api_call: the call is counted, then made; the call event
\* marks the entry into _api_call and carries the outcome of the call
ApiCall(R, method, arg, out) == TrackApiCall(Log(R, Ev("call", method, arg, out)))

\* TadoConnector.get_api_call_count
GetApiCallCount(R) ==
    LET R1 == ResetApiCallCounterIfNeeded(R)
    IN Log(R1, Ev("return", "get_api_call_count", "", R1.c.api_call_count))

\* dispatcher_send(SIGNAL_TADO_UPDATE_RECEIVED.format(home_id, category, id))
Notify(R, category, id) == Log(R, Ev("notify", category, id, ""))

\* connector.data[category][id] = value
Store(R, category, id, value) ==
    Log([R EXCEPT !.c.data[category] = DictSet(@, id, value)], Ev("store", category, id, ""))

\* the exceptions the poll steps catch: except (RuntimeError, TadoException)
PollCaught == {"RuntimeError", "TadoException"}

----------------------------------------------------------------------------
(* The poll steps *)

\* TadoConnector.update_devices, the loop over the listing (i counts from 1)
RECURSIVE UpdateDevicesLoop(_, _, _, _)
UpdateDevicesLoop(R, devices, i, plan) ==
    IF i > Len(devices) THEN R
    ELSE
      LET device_info == NormalizeDevice(R.c, devices[i], i - 1)
          device_id == IF R.c.is_x THEN device_info.serialNumber
                       ELSE device_info.shortSerialNo
          fetch == ~R.c.is_x /\ device_info.caps
          out == Outcome(plan, "get_temp_offset", device_id)
          R1 == IF fetch THEN ApiCall(R, "get_temp_offset", device_id, out) ELSE R
          stored == [ver |-> plan.ver, temp_offset |-> IF fetch THEN plan.ver ELSE 0]
      IN IF device_id = "" THEN UpdateDevicesLoop(R, devices, i + 1, plan)
         ELSE IF fetch /\ out \in PollCaught THEN R1
         ELSE IF fetch /\ out \in Exceptions THEN Raise(R1, out)
         ELSE UpdateDevicesLoop(
                  Notify(Store(R1, "device", device_id, stored), "device", device_id),
                  devices, i + 1, plan)

\* TadoConnector.update_devices
UpdateDevices(R, plan) ==
    IF R.exc # NoExc THEN R
    ELSE
      LET out == Outcome(plan, "get_devices", "")
          R1 == ApiCall(R, "get_devices", "", out)
      IN IF out \in PollCaught THEN R1
         ELSE IF out \in Exceptions THEN Raise(R1, out)
         ELSE IF plan.listing = <<>> THEN R1
         ELSE IF out = ErrorsPayload THEN R1
         ELSE UpdateDevicesLoop(R1, plan.listing, 1, plan)

\* the loop of update_mobile_devices storing each mobile device by its id
RECURSIVE StoreMobiles(_, _, _, _)
StoreMobiles(R, mobiles, i, ver) ==
    IF i > Len(mobiles) THEN R
    ELSE StoreMobiles(Store(R, "mobile_device", mobiles[i], ver), mobiles, i + 1, ver)

\* TadoConnector.update_mobile_devices
UpdateMobileDevices(R, plan) ==
    IF R.exc # NoExc THEN R
    ELSE
      LET out == Outcome(plan, "get_mobile_devices", "")
          R1 == ApiCall(R, "get_mobile_devices", "", out)
      IN IF out \in PollCaught THEN R1
         ELSE IF out \in Exceptions THEN Raise(R1, out)
         ELSE IF plan.mobiles = <<>> THEN R1
         ELSE IF out = ErrorsPayload THEN R1
         ELSE Notify(StoreMobiles(R1, plan.mobiles, 1, plan.ver), "mobile_device", "")

\* TadoConnector._adapt_zone_state: the zone state as the connector stores it
AdaptZoneState(plan) == [ver |-> plan.ver, current_temp |-> plan.temp]

\* TadoConnector.update_zone, for zones the client returns as mappings
UpdateZone(R, zone_id, plan) ==
    IF R.exc # NoExc THEN R
    ELSE
      LET known == zone_id \in DOMAIN R.c.zones_by_id
          info == Outcome(plan, "get_zone", Str(zone_id))
          R1 == IF known THEN R ELSE ApiCall(R, "get_zone", Str(zone_id), info)
          R2 == IF known THEN R
                ELSE [R1 EXCEPT !.c.zones_by_id = DictSet(@, zone_id, "dict")]
          out == Outcome(plan, "get_zone_state", Str(zone_id))
          R3 == ApiCall(R2, "get_zone_state", Str(zone_id), out)
      IN IF ~known /\ info \in PollCaught THEN R1
         ELSE IF ~known /\ info \in Exceptions THEN Raise(R1, info)
         ELSE IF out \in PollCaught THEN R3
         ELSE IF out \in Exceptions THEN Raise(R3, out)
         ELSE Notify(Store(R3, "zone", zone_id, AdaptZoneState(plan)), "zone", Str(zone_id))

\* TadoConnector.update_zones: every known zone, in listing order
RECURSIVE UpdateZonesFrom(_, _, _)
UpdateZonesFrom(R, zone_id, plan) ==
    IF zone_id > MaxZones THEN R
    ELSE UpdateZonesFrom(
             IF zone_id \in DOMAIN R.c.zones_by_id THEN UpdateZone(R, zone_id, plan) ELSE R,
             zone_id + 1, plan)

UpdateZones(R, plan) == IF R.exc # NoExc THEN R ELSE UpdateZonesFrom(R, 1, plan)

\* TadoConnector.update_home
UpdateHome(R, plan) ==
    IF R.exc # NoExc THEN R
    ELSE
      LET w == Outcome(plan, "get_weather", "")
          R1 == ApiCall(R, "get_weather", "", w)
          R2 == Log([R1 EXCEPT !.c.data.weather = plan.ver], Ev("store", "weather", "", ""))
          g == Outcome(plan, "get_home_state", "")
          R3 == ApiCall(R2, "get_home_state", "", g)
          R4 == Log([R3 EXCEPT !.c.data.geofence = plan.ver], Ev("store", "geofence", "", ""))
      IN IF w \in PollCaught THEN R1
         ELSE IF w \in Exceptions THEN Raise(R1, w)
         ELSE IF g \in PollCaught THEN R3
         ELSE IF g \in Exceptions THEN Raise(R3, g)
         ELSE Notify(R4, "home", "data")

\* TadoConnector.update: one poll cycle (the poll summary it logs last
\* changes no state the model keeps)
Update(R, plan) ==
    UpdateHome(UpdateZones(UpdateMobileDevices(UpdateDevices(R, plan), plan), plan), plan)

----------------------------------------------------------------------------
(* Offsets: the one-shot static application and set_temperature_offset *)

\* the body of the loop of TadoConnector._apply_device_offsets: the offset
\* configured for the device (per-device key, legacy key, exact type, "*")
ConfiguredOffset(c, device, device_key) ==
    LET byKey == DictGet(c.device_offsets, device_key)
        offset == IF byKey = <<>> /\ HasColon(device_key)
                  THEN DictGet(c.device_offsets, LegacyKey(device_key)) ELSE byKey
        device_type == GetDeviceType(device)
    IN IF offset # <<>> THEN offset
       ELSE IF device_type # "" /\ device_type \in DOMAIN c.device_type_offsets
            THEN <<c.device_type_offsets[device_type]>>
       ELSE IF "*" \in DOMAIN c.device_type_offsets THEN <<c.device_type_offsets["*"]>>
       ELSE <<>>

RECURSIVE ApplyDeviceOffsetsLoop(_, _, _)
ApplyDeviceOffsetsLoop(R, i, plan) ==
    IF i > Len(R.c.devices) THEN [R EXCEPT !.c.offsets_applied = TRUE]
    ELSE
      LET device == R.c.devices[i]
          device_key == IF device.device_key # <<>> THEN device.device_key
                        ELSE GetDeviceKey(device, i - 1)
          offset == ConfiguredOffset(R.c, device, device_key)
          device_id == RawDeviceId(device)
          out == Outcome(plan, "set_temp_offset", device_id)
          R1 == ApiCall(R, "set_temp_offset", device_id, out)
          R2 == Log([R1 EXCEPT !.c.device_offsets_current =
                                    SetCurrentOffset(@, device_key, offset[1])],
                    Ev("record", "offset", device_id, ""))
      IN IF offset = <<>> \/ device_id = "" THEN ApplyDeviceOffsetsLoop(R, i + 1, plan)
         ELSE IF out \in RequestExceptions THEN ApplyDeviceOffsetsLoop(R1, i + 1, plan)
         ELSE IF out \in Exceptions THEN Raise(R1, out)
         ELSE ApplyDeviceOffsetsLoop(R2, i + 1, plan)

\* TadoConnector._apply_device_offsets; past its gate the pass over the
\* devices begins, which the history field static_pass_begun remembers
ApplyDeviceOffsets(R, plan) ==
    IF R.exc # NoExc THEN R
    ELSE IF R.c.offsets_applied
            \/ (R.c.device_offsets = EmptyDict /\ R.c.device_type_offsets = EmptyDict)
         THEN R
    ELSE ApplyDeviceOffsetsLoop(
             Log([R EXCEPT !.c.static_pass_begun = TRUE], Ev("pass", "static_offsets", "", "")),
             1, plan)

\* set_temperature_offset without its except clause: the local record, the
\* notification and the refresh follow the write whatever its outcome
SetTemperatureOffsetUnguarded(R, device_id, offset, device_key, update_devices, plan) ==
    IF R.exc # NoExc \/ device_id = "" THEN R
    ELSE
      LET out == Outcome(plan, "set_temp_offset", device_id)
          R1 == ApiCall(R, "set_temp_offset", device_id, out)
          key == IF device_key = <<>> THEN LookupDeviceKeyForId(R.c.devices, device_id, 1)
                 ELSE device_key
          cur == IF key # <<>> THEN SetCurrentOffset(R.c.device_offsets_current, key, offset)
                 ELSE DictSet(R.c.device_offsets_current, <<device_id>>, offset)
          R2 == Log([R1 EXCEPT !.c.device_offsets_current = cur],
                    Ev("record", "offset", device_id, ""))
          R3 == Notify(R2, "device", device_id)
      IN IF out \in Exceptions \ RequestExceptions THEN Raise(R1, out)
         ELSE IF update_devices THEN UpdateDevices(R3, plan) ELSE R3

\* TadoConnector.set_temperature_offset; device_key is <<>> for None
SetTemperatureOffset(R, device_id, offset, device_key, update_devices, plan) ==
    IF R.exc # NoExc \/ device_id = "" THEN R
    ELSE
      LET out == Outcome(plan, "set_temp_offset", device_id)
          R1 == ApiCall(R, "set_temp_offset", device_id, out)
          key == IF device_key = <<>> THEN LookupDeviceKeyForId(R.c.devices, device_id, 1)
                 ELSE device_key
          cur == IF key # <<>> THEN SetCurrentOffset(R.c.device_offsets_current, key, offset)
                 ELSE DictSet(R.c.device_offsets_current, <<device_id>>, offset)
          rs == IF key # <<>> THEN SetCurrentOffset(R.rs, key, offset)
                ELSE DictSet(R.rs, <<device_id>>, offset)
          R2 == Log([R1 EXCEPT !.c.device_offsets_current = cur, !.rs = rs],
                    Ev("record", "offset", device_id, ""))
          R3 == Notify(R2, "device", device_id)
      IN IF out \in RequestExceptions THEN R1
         ELSE IF out \in Exceptions THEN Raise(R1, out)
         ELSE IF update_devices THEN UpdateDevices(R3, plan) ELSE R3

----------------------------------------------------------------------------
(* Setup *)

\* _extract_home_info without its check of the home's id and name
ExtractHomeInfoHomesOnly(tado_me) ==
    IF tado_me = "no_homes" THEN "RuntimeError" ELSE NoExc

\* TadoConnector._extract_home_info: the exception it raises, "" for none
ExtractHomeInfo(tado_me) ==
    IF tado_me = "no_homes" THEN "RuntimeError"
    ELSE IF tado_me \in {"no_id", "no_name"} THEN "RuntimeError"
    ELSE NoExc

\* the zone listing of setup(): every zone of the home, as a mapping
RECURSIVE ZoneListing(_)
ZoneListing(z) == IF z > MaxZones THEN <<>> ELSE <<z>> \o ZoneListing(z + 1)

\* TadoConnector.setup
Setup(R, plan) ==
    LET new == Outcome(plan, "Tado", "")
        R0 == Log(R, Ev("new", "Tado", "", new))
        R1 == [R0 EXCEPT !.c.tado = "client"]
        me == Outcome(plan, "get_me", "")
        R2 == ApiCall(R1, "get_me", "", IF me = "ok" THEN plan.me ELSE me)
        R3 == [R2 EXCEPT !.c.home_id = 1, !.c.is_x = (plan.me = "LINE_X")]
        R4 == [R3 EXCEPT !.c.zones_by_id = EmptyDict, !.c.zones = <<>>]
        zs == Outcome(plan, "get_zones", "")
        R5 == ApiCall(R4, "get_zones", "", zs)
        R6 == [R5 EXCEPT !.c.zones_by_id = [z \in ZoneIds |-> "dict"],
                         !.c.zones = ZoneListing(1)]
        ds == Outcome(plan, "get_devices", "")
        R7 == ApiCall(R6, "get_devices", "", ds)
        R8 == [R7 EXCEPT !.c.devices = NormalizeAll(R7.c, plan.listing, 1)]
    IN IF new = "KeyError" THEN Raise(R0, "RuntimeError")
       ELSE IF new \in Exceptions THEN Raise(R0, new)
       ELSE IF me \in Exceptions THEN Raise(R2, me)
       ELSE IF ExtractHomeInfo(plan.me) # NoExc THEN Raise(R2, ExtractHomeInfo(plan.me))
       ELSE IF zs \in Exceptions THEN Raise(R5, zs)
       ELSE IF ds \in Exceptions THEN Raise(R7, ds)
       ELSE ApplyDeviceOffsets(R8, plan)

----------------------------------------------------------------------------
(* Options *)

\* the values the options flow can hold for the per-device offsets: none, one
\* for the valve under its full key, one for the valve under its legacy key
DeviceOffsetChoices ==
    {EmptyDict, [k \in {<<"VA02", "VA1">>} |-> 20], [k \in {<<"VA1">>} |-> 15]}

\* the values the options can hold for the per-device-type offsets
DeviceTypeOffsetChoices == {EmptyDict, [k \in {"VA02"} |-> 5], [k \in {"*"} |-> 10]}

\* the values the options can hold for the per-device-type id overrides
DeviceTypeIdOverrideChoices == {EmptyDict, [k \in {"IB01"} |-> "IB9"]}

\* the values the options can hold for the zone -> sensor map
ZoneSensorMapChoices == {EmptyDict, [k \in {"1"} |-> <<"sensor.a">>]}

\* TadoConnector._normalize_zone_sensors on the items of a supplied value (a
\* list, or a string split at its separators; "" is None or a blank item):
\* blank items and repetitions are dropped, the order is kept
RECURSIVE NormalizeZoneSensors(_, _, _)
NormalizeZoneSensors(values, i, result) ==
    IF i > Len(values) THEN result
    ELSE IF values[i] = "" \/ \E j \in 1..Len(result) : result[j] = values[i]
         THEN NormalizeZoneSensors(values, i + 1, result)
    ELSE NormalizeZoneSensors(values, i + 1, Append(result, values[i]))

\* TadoConnector._normalize_zone_sensor_map: falsy keys and zones left with
\* no sensor are dropped
NormalizeZoneSensorMap(zone_sensor_map) ==
    LET kept == {key \in DOMAIN zone_sensor_map :
                    key # "" /\ NormalizeZoneSensors(zone_sensor_map[key], 1, <<>>) # <<>>}
    IN [key \in kept |-> NormalizeZoneSensors(zone_sensor_map[key], 1, <<>>)]

\* TadoConnector.update_runtime_options; the options hold the four mappings
\* (and, for the scan interval, what the connector only logs)
UpdateRuntimeOptions(c, options) ==
    [c EXCEPT !.device_id_overrides = options.device_id_overrides,
              !.device_offsets = options.device_offsets,
              !.device_zone_map = options.device_zone_map,
              !.zone_sensor_map = NormalizeZoneSensorMap(options.zone_sensor_map)]

----------------------------------------------------------------------------
(* The connector's life *)

\* TadoConnector.__init__
NewConnector(device_offsets, device_type_offsets, device_type_id_overrides, zone_sensor_map) ==
    [tado |-> "", home_id |-> 0, is_x |-> FALSE,
     zones |-> <<>>, devices |-> <<>>, zones_by_id |-> EmptyDict,
     data |-> [device |-> EmptyDict, mobile_device |-> EmptyDict, weather |-> 0,
               geofence |-> 0, zone |-> EmptyDict],
     device_id_overrides |-> EmptyDict,
     device_offsets |-> device_offsets,
     device_offsets_current |-> device_offsets,
     device_type_id_overrides |-> device_type_id_overrides,
     device_type_offsets |-> device_type_offsets,
     device_zone_map |-> EmptyDict,
     zone_sensor_map |-> NormalizeZoneSensorMap(zone_sensor_map),
     offsets_applied |-> FALSE,
     static_pass_begun |-> FALSE,
     api_call_date |-> 0,
     api_call_count |-> 0]

NoArgs == [device_id |-> "", offset |-> 0, device_key |-> <<>>]

\* no operation is running and the last one's result has been consumed
Idle == [name |-> "idle", exc |-> NoExc, tr |-> <<>>, args |-> NoArgs]

\* the config entry before async_setup_entry: its token file, whether the
\* host has started, and nothing registered
NotLoaded == [state |-> "not_loaded", result |-> "", token |-> "", running |-> TRUE,
              setup_exc |-> NoExc, status |-> 0, on_unload |-> {}, active |-> {}]

\* the connector `c` an operation leaves, seen without the API-call counter,
\* which no handler reads: the specifications that do not observe the counter
\* keep it as it was
SameCounter(c) ==
    [c EXCEPT !.api_call_date = connector.api_call_date,
              !.api_call_count = connector.api_call_count]

\* the operation `name` has run from the current state and ended in context R
Finish(name, args, R) ==
    /\ op = Idle
    /\ connector' = SameCounter(R.c)
    /\ runtime_set' = R.rs
    /\ op' = [name |-> name, exc |-> R.exc, tr |-> R.tr, args |-> args]

\* the caller has taken the operation's result (its return or its exception)
Return ==
    /\ op # Idle
    /\ op' = Idle
    /\ UNCHANGED <<connector, runtime_set, entry, home>>

Here == Ctx(connector, runtime_set)

\* the remote's behaviour with the home's answers filled in
AtHome(plans) ==
    {[p EXCEPT !.me = home.me, !.listing = home.listing, !.mobiles = home.mobiles] :
        p \in plans}

\* the two ways the connector's own handlers tell failures apart: caught by
\* except (RuntimeError, TadoException), or a RequestException
FaultKinds == {"TadoException", "Timeout"}

SetupSites == {<<"get_me", "">>, <<"get_zones", "">>, <<"get_devices", "">>}
                  \cup {<<"set_temp_offset", d>> : d \in DeviceIds}

SetupPlans ==
    FaultPlans({<<"Tado", "">>}, {"KeyError", "TadoException"})
    \cup FaultPlans(SetupSites, FaultKinds)

----------------------------------------------------------------------------
(* The connector driven through its offset interface: construction with any *)
(* of the configured offsets, setup(), option updates and offset writes.    *)

\* the device listings of the home
OffsetListings == {<<>>, <<RawIB, RawVA>>}

Init ==
    /\ \E o \in DeviceOffsetChoices, t \in DeviceTypeOffsetChoices,
          i \in DeviceTypeIdOverrideChoices :
           connector = NewConnector(o, t, i, EmptyDict)
    /\ runtime_set = EmptyDict
    /\ op = Idle
    /\ entry = NotLoaded
    /\ \E m \in MeResults \ {"LINE_X"}, l \in OffsetListings :
           home = [me |-> m, listing |-> l, mobiles |-> <<"M1">>]

DoSetup ==
    /\ \E plan \in AtHome(SetupPlans) : Finish("setup", NoArgs, Setup(Here, plan))
    /\ UNCHANGED <<entry, home>>

DoUpdateRuntimeOptions ==
    /\ op = Idle
    /\ \E o \in DeviceOffsetChoices :
           connector' = UpdateRuntimeOptions(connector,
               [device_id_overrides |-> connector.device_id_overrides,
                device_offsets |-> o,
                device_zone_map |-> connector.device_zone_map,
                zone_sensor_map |-> connector.zone_sensor_map])
    /\ op' = [Idle EXCEPT !.name = "update_runtime_options"]
    /\ UNCHANGED <<runtime_set, entry, home>>

\* the calls of set_temperature_offset the entities make: a device id with
\* no key, or with the key of that device
SetOffsetArgs ==
    {[device_id |-> "", offset |-> 30, device_key |-> <<>>],
     [device_id |-> "VA1", offset |-> 30, device_key |-> <<>>],
     [device_id |-> "VA1", offset |-> 30, device_key |-> <<"VA02", "VA1">>],
     [device_id |-> "IB9", offset |-> 30, device_key |-> <<>>]}

SetOffsetSites(device_id) ==
    {<<"set_temp_offset", device_id>>, <<"get_devices", "">>}
        \cup {<<"get_temp_offset", d>> : d \in DeviceIds}

DoSetTemperatureOffset ==
    /\ connector.tado # ""
    /\ \E a \in SetOffsetArgs, u \in BOOLEAN :
         \E plan \in AtHome(FaultPlans(SetOffsetSites(a.device_id), FaultKinds)) :
           Finish("set_temperature_offset", a,
                  SetTemperatureOffset(Here, a.device_id, a.offset, a.device_key, u, plan))
    /\ UNCHANGED <<entry, home>>

Next == DoSetup \/ DoUpdateRuntimeOptions \/ DoSetTemperatureOffset \/ Return

Spec == Init /\ [][Next]_vars

----------------------------------------------------------------------------
(* Reading the events of the last operation *)

\* the last operation made the remote call `method` (with any argument)
Called(method) == \E i \in 1..Len(op.tr) : op.tr[i][1] = "call" /\ op.tr[i][2] = method

\* the last operation made the remote call `method(arg)` and got `out`
CalledWith(method, arg, out) == \E i \in 1..Len(op.tr) : op.tr[i] = Ev("call", method, arg, out)

----------------------------------------------------------------------------
(* C3: a get_me answer without a usable home fails setup() before any      *)
(* listing is fetched                                                      *)

UnusableMe == {"no_homes", "no_id", "no_name"}

\* C3: whenever setup() has run and get_me answered with no homes, or with a
\* home lacking its id or its name, setup() ended with an error and made no
\* get_zones, get_devices or set_temp_offset call.
C3_NoHomeFailsSetup ==
    (op.name = "setup" /\ \E m \in UnusableMe : CalledWith("get_me", "", m))
        => /\ op.exc = "RuntimeError"
           /\ ~Called("get_zones")
           /\ ~Called("get_devices")
           /\ ~Called("set_temp_offset")

C3_Witness ==
    /\ op.name = "setup"
    /\ CalledWith("get_me", "", "no_homes")
    /\ op.exc = "RuntimeError"

----------------------------------------------------------------------------
(* C9: the layers get_device_offset resolves through                        *)

\* the value the layers give for a device: the runtime-set value (recorded
\* under the full key or its legacy suffix), else the configured per-device offset (full key, then
\* legacy key), else the offset of its exact type, else the "*" offset
LayeredOffset(device) ==
    LET key == GetDeviceKey(device, -1)
        device_type == GetDeviceType(device)
    IN IF key \in DOMAIN runtime_set THEN <<runtime_set[key]>>
       ELSE IF HasColon(key) /\ LegacyKey(key) \in DOMAIN runtime_set
            THEN <<runtime_set[LegacyKey(key)]>>
       ELSE IF key \in DOMAIN connector.device_offsets THEN <<connector.device_offsets[key]>>
       ELSE IF HasColon(key) /\ LegacyKey(key) \in DOMAIN connector.device_offsets
            THEN <<connector.device_offsets[LegacyKey(key)]>>
       ELSE IF device_type \in DOMAIN connector.device_type_offsets
            THEN <<connector.device_type_offsets[device_type]>>
       ELSE IF "*" \in DOMAIN connector.device_type_offsets
            THEN <<connector.device_type_offsets["*"]>>
       ELSE <<>>

\* C9: in every state, for every device of the home, get_device_offset
\* returns the runtime-set value if there is one, else the
\* configured per-device offset, else the exact-type offset, else the "*"
\* offset, else None.
C9_OffsetLayers ==
    \A d \in {NormalizeDevice(connector, raw, 0) : raw \in RawDevices} :
        GetDeviceOffset(connector, d) = LayeredOffset(d)

----------------------------------------------------------------------------
(* C10: a successful set_temperature_offset is visible under both key forms *)

\* every device record get_device_offset can be asked about
KnownDeviceInfos == {NormalizeDevice(connector, d, 0) : d \in RawDevices}

\* C10: after set_temperature_offset(device_id, v, device_key = K) with K of
\* the form TYPE:suffix and a successful remote write, get_device_offset
\* returns v under K and under the bare suffix; and in every
\* set_temperature_offset the local record comes after a successful write.
C10_BothKeyFormsAfterWrite ==
    op.name = "set_temperature_offset" =>
        /\ (HasColon(op.args.device_key)
              /\ CalledWith("set_temp_offset", op.args.device_id, "ok"))
            => \A d \in KnownDeviceInfos :
                 /\ GetDeviceOffsetByKey(connector, d, op.args.device_key) = <<op.args.offset>>
                 /\ GetDeviceOffsetByKey(connector, d, LegacyKey(op.args.device_key))
                        = <<op.args.offset>>
        /\ \A j \in 1..Len(op.tr) :
              op.tr[j][1] = "record" =>
                 \E i \in 1..(j - 1) : op.tr[i] = Ev("call", "set_temp_offset", op.args.device_id, "ok")

C10_Witness ==
    /\ op.name = "set_temperature_offset"
    /\ op.args.device_key = <<"VA02", "VA1">>
    /\ CalledWith("set_temp_offset", "VA1", "ok")
    /\ connector.device_offsets_current[<<"VA1">>] = 30
    /\ connector.device_offsets = [k \in {<<"VA1">>} |-> 15]

----------------------------------------------------------------------------
(* C11: a rejected offset write leaves no trace                             *)

\* the events `tr` hold a write of the offset of `device_id` that the remote
\* rejected: the call ended in one of the request failures
OffsetWriteRejected(tr, device_id) ==
    \E i \in 1..Len(tr), k \in RequestExceptions :
        tr[i] = Ev("call", "set_temp_offset", device_id, k)

\* C11: every set_temperature_offset whose remote write is rejected returns
\* without raising, leaves the current-offset map as it was before the call,
\* sends no notification and fetches no device listing.
C11_RejectedOffsetWriteAbsorbed ==
    [][(op'.name = "set_temperature_offset" /\ op.name = "idle"
          /\ OffsetWriteRejected(op'.tr, op'.args.device_id))
        => /\ op'.exc = NoExc
           /\ connector'.device_offsets_current = connector.device_offsets_current
           /\ \A i \in 1..Len(op'.tr) :
                 /\ op'.tr[i][1] \notin {"notify", "record"}
                 /\ op'.tr[i][2] # "get_devices"]_vars

C11_Witness ==
    /\ op.name = "set_temperature_offset"
    /\ op.args.device_key = <<"VA02", "VA1">>
    /\ OffsetWriteRejected(op.tr, "VA1")
    /\ connector.device_offsets_current = [k \in {<<"VA1">>} |-> 15]

----------------------------------------------------------------------------
(* C16: the one-shot application of the static offsets                      *)

\* the events `tr` hold the beginning of a pass over the devices
PassIn(tr) == \E i \in 1..Len(tr) : tr[i] = Ev("pass", "static_offsets", "", "")

\* C16: over any sequence of setup() calls and option updates the pass that
\* writes the configured offsets is not begun a second time in the life of a
\* connector, and within a pass every write goes to a device for which a
\* per-device or per-type offset is configured.
C16_StaticOffsetsAppliedOnce ==
    [][(op'.name = "setup" /\ op.name = "idle" /\ PassIn(op'.tr))
        => /\ ~connector.static_pass_begun
           /\ \A i \in 1..Len(op'.tr) :
                 (op'.tr[i][1] = "call" /\ op'.tr[i][2] = "set_temp_offset")
                    => \E j \in 1..Len(connector'.devices) :
                          /\ RawDeviceId(connector'.devices[j]) = op'.tr[i][3]
                          /\ ConfiguredOffset(connector', connector'.devices[j],
                                              connector'.devices[j].device_key) # <<>>]_vars

----------------------------------------------------------------------------
(* The connector polled: setup() against a remote that answers, then poll   *)
(* cycles and single poll steps against a remote whose calls may fail and   *)
(* whose payloads change between polls.                                     *)

\* the failures a remote call can end in while polling
PollKinds == {"TadoException", "RuntimeError", "Timeout", "ConnectionError"}

DeviceSites == {<<"get_devices", "">>} \cup {<<"get_temp_offset", d>> : d \in {"VA1", "RU1"}}
MobileSites == {<<"get_mobile_devices", "">>}
ZoneSites(zone_id) == {<<"get_zone_state", Str(zone_id)>>}
HomeSites == {<<"get_weather", "">>, <<"get_home_state", "">>}
PollSites == DeviceSites \cup MobileSites \cup HomeSites
                 \cup UNION {ZoneSites(z) : z \in ZoneIds}

\* the remote's behaviour during a poll: failing calls, listings answered
\* with an "errors" payload, and the version of the payloads it serves
PollPlans(sites) ==
    LET failing == FaultPlans(sites, PollKinds)
                     \cup FaultPlans(sites \cap {<<"get_devices", "">>,
                                                <<"get_mobile_devices", "">>},
                                     {ErrorsPayload})
    IN {[p EXCEPT !.ver = v] : p \in AtHome(failing), v \in Versions}

PollHomes ==
    {[me |-> m, listing |-> l.listing, mobiles |-> l.mobiles] :
        m \in {"PRE_LINE_X", "LINE_X"},
        l \in {[listing |-> <<>>, mobiles |-> <<>>],
               [listing |-> <<RawVA, RawRU>>, mobiles |-> <<"M1">>]}}

PollInit ==
    /\ connector = NewConnector(EmptyDict, EmptyDict, EmptyDict, EmptyDict)
    /\ runtime_set = EmptyDict
    /\ op = Idle
    /\ entry = NotLoaded
    /\ home \in PollHomes

DoSetupOk ==
    /\ connector.tado = ""
    /\ \E plan \in AtHome({NoFaultPlan}) : Finish("setup", NoArgs, Setup(Here, plan))
    /\ UNCHANGED <<entry, home>>

DoUpdate ==
    /\ connector.tado # ""
    /\ \E plan \in PollPlans(PollSites) : Finish("update", NoArgs, Update(Here, plan))
    /\ UNCHANGED <<entry, home>>

DoUpdateDevices ==
    /\ connector.tado # ""
    /\ \E plan \in PollPlans(DeviceSites) :
           Finish("update_devices", NoArgs, UpdateDevices(Here, plan))
    /\ UNCHANGED <<entry, home>>

DoUpdateMobileDevices ==
    /\ connector.tado # ""
    /\ \E plan \in PollPlans(MobileSites) :
           Finish("update_mobile_devices", NoArgs, UpdateMobileDevices(Here, plan))
    /\ UNCHANGED <<entry, home>>

DoUpdateZone ==
    /\ connector.tado # ""
    /\ \E zone_id \in DOMAIN connector.zones_by_id :
         \E plan \in PollPlans(ZoneSites(zone_id)) :
           Finish("update_zone", [NoArgs EXCEPT !.device_id = Str(zone_id)],
                  UpdateZone(Here, zone_id, plan))
    /\ UNCHANGED <<entry, home>>

DoUpdateZones ==
    /\ connector.tado # ""
    /\ \E plan \in PollPlans(UNION {ZoneSites(z) : z \in ZoneIds}) :
           Finish("update_zones", NoArgs, UpdateZones(Here, plan))
    /\ UNCHANGED <<entry, home>>

DoUpdateHome ==
    /\ connector.tado # ""
    /\ \E plan \in PollPlans(HomeSites) :
           Finish("update_home", NoArgs, UpdateHome(Here, plan))
    /\ UNCHANGED <<entry, home>>

PollNext ==
    \/ DoSetupOk
    \/ DoUpdate
    \/ DoUpdateDevices
    \/ DoUpdateMobileDevices
    \/ DoUpdateZone
    \/ DoUpdateZones
    \/ DoUpdateHome
    \/ Return

PollSpec == PollInit /\ [][PollNext]_vars

----------------------------------------------------------------------------
(* The config entry: async_setup_entry, the standing triggers it registers, *)
(* and the unload of the entry.                                             *)

\* the keyword parameters TadoConnector.__init__ takes
InitParams ==
    {"scan_interval_seconds", "device_id_overrides", "device_offsets",
     "device_type_id_overrides", "device_type_offsets", "device_zone_map",
     "zone_sensor_map"}

\* the keyword arguments async_setup_entry passes to TadoConnector(...)
EntryCtorKwargs ==
    InitParams \cup {"temp_offset_refresh_interval_seconds",
                     "home_weather_refresh_interval_seconds"}

\* a Python call with keyword arguments: TypeError for an unexpected one
CallWith(kwargs, params) == IF kwargs \subseteq params THEN NoExc ELSE "TypeError"

\* the except ladder around tadoconnector.setup: "False", "ConfigEntryNotReady",
\* or the exception itself when no clause catches it
SetupLadder(exc, status) ==
    IF exc = "RuntimeError" THEN "False"
    ELSE IF exc = "TadoException" THEN "False"
    ELSE IF exc = "Timeout" THEN "ConfigEntryNotReady"
    ELSE IF exc = "HTTPError"
         THEN IF status > 400 /\ status < 500 THEN "False" ELSE "ConfigEntryNotReady"
    ELSE exc

\* the triggers async_setup_entry hands to entry.async_on_unload
UnloadRegistered(zone_sensor_map) ==
    {"update_timer", "offset_timer", "mobile_timer", "update_listener"}
        \cup (IF zone_sensor_map # EmptyDict THEN {"sensor_listener"} ELSE {})

\* _schedule_initial_offset_recalc: the trigger it leaves standing
InitialRecalcScheduled(zone_sensor_map, is_running) ==
    IF zone_sensor_map = EmptyDict THEN {}
    ELSE IF is_running THEN {"initial_recalc"}
    ELSE {"start_listener"}

EntryKinds == {"TadoException", "Timeout", "ConnectionError", "HTTPError"}

\* the remote's behaviour during async_setup_entry
EntryPlans ==
    LET failing == FaultPlans({<<"Tado", "">>}, {"KeyError"})
                     \cup FaultPlans({<<"get_me", "">>, <<"get_zones", "">>,
                                      <<"get_devices", "">>} \cup PollSites, EntryKinds)
    IN {[p EXCEPT !.status = s] :
            p \in {q \in AtHome(failing) : q.kind = "HTTPError" /\ q.faults # {}},
            s \in HttpStatuses}
       \cup {q \in AtHome(failing) : q.kind # "HTTPError" \/ q.faults = {}}

\* async_setup_entry from the call of tadoconnector.setup on (line 415)
EntryFromSetup(plan) ==
    \E R1 \in {Setup(Here, plan)} :
      \E R2 \in {Update(R1, plan)} :
        \E result \in {IF R1.exc # NoExc THEN SetupLadder(R1.exc, plan.status)
                       ELSE IF R2.exc # NoExc THEN R2.exc
                       ELSE "True"} :
          /\ connector' = SameCounter(IF R1.exc # NoExc THEN R1.c ELSE R2.c)
          /\ runtime_set' = IF R1.exc # NoExc THEN R1.rs ELSE R2.rs
          /\ op' = [name |-> "async_setup_entry",
                    exc |-> IF result \in {"True", "False"} THEN NoExc ELSE result,
                    tr |-> IF R1.exc # NoExc THEN R1.tr ELSE R2.tr,
                    args |-> NoArgs]
          /\ entry' = [entry EXCEPT
                 !.state = CASE result = "True" -> "loaded"
                             [] result = "False" -> "failed"
                             [] result = "ConfigEntryNotReady" -> "retry"
                             [] OTHER -> "error",
                 !.result = result,
                 !.setup_exc = R1.exc,
                 !.status = IF R1.exc = "HTTPError" THEN plan.status ELSE 0,
                 !.on_unload = IF result = "True"
                               THEN UnloadRegistered(connector.zone_sensor_map)
                               ELSE {},
                 !.active = IF result = "True"
                            THEN UnloadRegistered(connector.zone_sensor_map)
                                   \cup InitialRecalcScheduled(connector.zone_sensor_map,
                                                               entry.running)
                            ELSE {}]

\* async_setup_entry
AsyncSetupEntry ==
    /\ op = Idle
    /\ entry.state = "not_loaded"
    /\ IF entry.token = ""
       THEN /\ entry' = [entry EXCEPT !.state = "failed", !.result = "False"]
            /\ op' = [Idle EXCEPT !.name = "async_setup_entry"]
            /\ UNCHANGED <<connector, runtime_set>>
       ELSE IF CallWith(EntryCtorKwargs, InitParams) # NoExc
       THEN /\ entry' = [entry EXCEPT !.state = "error",
                                      !.result = CallWith(EntryCtorKwargs, InitParams)]
            /\ op' = [Idle EXCEPT !.name = "async_setup_entry",
                                  !.exc = CallWith(EntryCtorKwargs, InitParams)]
            /\ UNCHANGED <<connector, runtime_set>>
       ELSE \E plan \in EntryPlans : EntryFromSetup(plan)
    /\ UNCHANGED home

\* async_setup_entry entered at line 415, with a connector constructed from
\* the keyword parameters TadoConnector.__init__ takes
AsyncSetupEntryFromSetup ==
    /\ op = Idle
    /\ entry.state = "not_loaded"
    /\ entry.token # ""
    /\ \E plan \in EntryPlans : EntryFromSetup(plan)
    /\ UNCHANGED home

\* the keyword parameters TadoConnector.update takes
UpdateParams == {}

\* the callback of _register_update_timer:
\* lambda now: tado.update(include_mobile_devices=False)
UpdateTimerCallback(R, plan) ==
    IF CallWith({"include_mobile_devices"}, UpdateParams) # NoExc
    THEN Raise(R, CallWith({"include_mobile_devices"}, UpdateParams))
    ELSE Update(R, plan)

UpdateTimerFire ==
    /\ "update_timer" \in entry.active
    /\ \E plan \in AtHome({NoFaultPlan}) :
           Finish("update_timer", NoArgs, UpdateTimerCallback(Here, plan))
    /\ UNCHANGED <<entry, home>>

\* the mobile-device timer: lambda now: tadoconnector.update_mobile_devices()
MobileTimerFire ==
    /\ "mobile_timer" \in entry.active
    /\ \E plan \in PollPlans(MobileSites) :
           Finish("mobile_timer", NoArgs, UpdateMobileDevices(Here, plan))
    /\ UNCHANGED <<entry, home>>

\* hass.async_add_executor_job(job, arg, force): the job is handed to the executor
AddExecutorJob(R, job, arg, force) == Log(R, Ev("job", job, arg, force))

\* _handle_offset_recalc of _register_offset_recalc_timer
OffsetTimerFire ==
    /\ "offset_timer" \in entry.active
    /\ Finish("offset_timer", NoArgs,
              AddExecutorJob(Here, "auto_adjust_offsets_all", "", ""))
    /\ UNCHANGED <<entry, home>>

\* the states a reference sensor reports; "" is no state object (None)
SensorStates == {"", "unknown", "21.5"}

\* _sensor_state_listener of _register_zone_sensor_listeners
SensorStateListener(R, entity_id, new_state, old_state) ==
    IF entity_id = "" THEN R
    ELSE IF new_state = "" THEN R
    ELSE IF new_state \in {"unknown", "unavailable"} THEN R
    ELSE AddExecutorJob(R, "auto_adjust_offsets_for_sensor", entity_id,
             IF old_state = "" \/ old_state \in {"unknown", "unavailable"}
             THEN "force" ELSE "")

SensorEvent ==
    /\ "sensor_listener" \in entry.active
    /\ \E entity_id \in {"", "sensor.a"}, new_state \in SensorStates,
          old_state \in SensorStates :
           Finish("sensor_event", [NoArgs EXCEPT !.device_id = entity_id],
                  SensorStateListener(Here, entity_id, new_state, old_state))
    /\ UNCHANGED <<entry, home>>

\* EVENT_HOMEASSISTANT_STARTED; _handle_start when it is listening
HassStarted ==
    /\ op = Idle
    /\ ~entry.running
    /\ entry' = [entry EXCEPT
           !.running = TRUE,
           !.active = IF "start_listener" \in @
                      THEN (@ \ {"start_listener"}) \cup {"initial_recalc"} ELSE @]
    /\ op' = [Idle EXCEPT !.name = "homeassistant_started"]
    /\ UNCHANGED <<connector, runtime_set, home>>

\* _run of _schedule_initial_offset_recalc, five seconds after it was scheduled
InitialRecalcFire ==
    /\ "initial_recalc" \in entry.active
    /\ Finish("initial_recalc", NoArgs,
              AddExecutorJob(Here, "auto_adjust_offsets_all", "", ""))
    /\ entry' = [entry EXCEPT !.active = @ \ {"initial_recalc"}]
    /\ UNCHANGED home

\* async_unload_entry: the platforms are unloaded and the host runs the
\* callbacks handed to entry.async_on_unload
AsyncUnloadEntry ==
    /\ op = Idle
    /\ entry.state = "loaded"
    /\ entry' = [entry EXCEPT !.state = "unloaded", !.active = @ \ entry.on_unload,
                              !.on_unload = {}]
    /\ op' = [Idle EXCEPT !.name = "async_unload_entry"]
    /\ UNCHANGED <<connector, runtime_set, home>>

EntryInit ==
    /\ \E zone_sensor_map \in ZoneSensorMapChoices :
           connector = NewConnector(EmptyDict, EmptyDict, EmptyDict, zone_sensor_map)
    /\ runtime_set = EmptyDict
    /\ op = Idle
    /\ \E token \in {"", "token.json"}, is_running \in BOOLEAN :
           entry = [NotLoaded EXCEPT !.token = token, !.running = is_running]
    /\ home \in PollHomes

EntryNext ==
    \/ AsyncSetupEntry
    \/ AsyncSetupEntryFromSetup
    \/ UpdateTimerFire
    \/ MobileTimerFire
    \/ OffsetTimerFire
    \/ SensorEvent
    \/ HassStarted
    \/ InitialRecalcFire
    \/ AsyncUnloadEntry
    \/ Return

EntrySpec == EntryInit /\ [][EntryNext]_vars

----------------------------------------------------------------------------
(* C1, C2: transient failures while polling *)

\* the transient remote errors: a timeout, a connection error, an exception
\* of the remote API
TransientKinds == {"Timeout", "ConnectionError", "TadoException"}

\* C1: whenever update() has run and its get_devices call failed with a
\* transient remote error, update() did not raise and ran
\* update_mobile_devices, update_zones (every known zone) and update_home.
C1_UpdateSurvivesDeviceFailure ==
    (op.name = "update" /\ \E k \in TransientKinds : CalledWith("get_devices", "", k))
        => /\ op.exc = NoExc
           /\ Called("get_mobile_devices")
           /\ \A z \in DOMAIN connector.zones_by_id :
                  \E o \in PollKinds \cup {"ok"} : CalledWith("get_zone_state", Str(z), o)
           /\ Called("get_weather")

\* the entries of the data mapping stored in `old` are the same in `new`
DataKept(old, new) ==
    /\ \A cat \in {"device", "mobile_device", "zone"} :
         \A id \in DOMAIN old[cat] : id \in DOMAIN new[cat] /\ new[cat][id] = old[cat][id]
    /\ old.weather # 0 => new.weather = old.weather
    /\ old.geofence # 0 => new.geofence = old.geofence

PollSteps == {"update_devices", "update_mobile_devices", "update_zone", "update_home"}

\* C2: every poll step (update_devices, update_mobile_devices, update_zone,
\* update_home) in which a remote call failed with a transient error leaves
\* every entry stored in the data mapping before the step as it was.
C2_FailedStepKeepsData ==
    [][(/\ op'.name \in PollSteps
        /\ \E i \in 1..Len(op'.tr) :
               op'.tr[i][1] = "call" /\ op'.tr[i][4] \in TransientKinds)
          => DataKept(connector.data, connector'.data)]_vars

----------------------------------------------------------------------------
(* C4 - C8: the config entry *)

\* no remote call of the last operation failed
EveryCallSucceeded ==
    \A i \in 1..Len(op.tr) :
        op.tr[i][1] \in {"call", "new"} => op.tr[i][4] \notin Exceptions \cup {"KeyError"}

\* C4: whenever async_setup_entry has run with a token file configured and
\* every remote call succeeding, it has run setup() (get_me, get_zones,
\* get_devices) and one update(), has registered the periodic triggers and
\* has returned True: the entry is loaded.
C4_SetupEntryReachesReady ==
    (op.name = "async_setup_entry" /\ entry.token # "" /\ EveryCallSucceeded)
        => /\ entry.result = "True"
           /\ entry.state = "loaded"
           /\ Called("get_me") /\ Called("get_zones") /\ Called("get_devices")
           /\ Called("get_weather")
           /\ {"update_timer", "mobile_timer", "offset_timer"} \subseteq entry.active

\* C5: whenever connector.setup has failed with a request timeout, a
\* connection error or an HTTP 5xx error, async_setup_entry has raised
\* ConfigEntryNotReady.
C5_TransientSetupFailureRetries ==
    (\/ entry.setup_exc \in {"Timeout", "ConnectionError"}
     \/ (entry.setup_exc = "HTTPError" /\ entry.status >= 500))
        => entry.result = "ConfigEntryNotReady"

\* C6: whenever connector.setup has failed with an HTTP error of status 400
\* to 499, async_setup_entry has returned False.
C6_PermanentSetupFailureIsFatal ==
    (entry.setup_exc = "HTTPError" /\ entry.status >= 400 /\ entry.status <= 499)
        => entry.result = "False"

\* C7: whenever the full-reconciliation timer has fired, update_devices,
\* update_zones (every known zone) and update_home have run for that firing.
C7_UpdateTimerRunsPollCycle ==
    op.name = "update_timer"
        => /\ Called("get_devices")
           /\ \A z \in DOMAIN connector.zones_by_id : Called("get_zone_state")
           /\ Called("get_weather")

\* the triggers that call into the connector
StandingTriggers ==
    {"update_timer", "mobile_timer", "offset_timer", "sensor_listener",
     "start_listener", "initial_recalc"}

\* C8: once the entry is unloaded, none of its standing triggers (the three
\* timers, the sensor listeners, the delayed initial recalculation) is still
\* registered.
C8_UnloadUnregistersTriggers ==
    entry.state = "unloaded" => entry.active \cap StandingTriggers = {}

----------------------------------------------------------------------------
(* The write operations: zone overlays, presence and meter readings *)

\* TadoConnector.reset_zone_overlay
ResetZoneOverlay(R, zone_id, plan) ==
    IF R.exc # NoExc THEN R
    ELSE
      LET out == Outcome(plan, "reset_zone_overlay", Str(zone_id))
          R1 == ApiCall(R, "reset_zone_overlay", Str(zone_id), out)
      IN IF out \in Exceptions THEN Raise(R1, out)
         ELSE UpdateZone(R1, zone_id, plan)

\* TadoConnector.set_zone_overlay (the overlay's mode, temperature, duration
\* and fan settings are handed to the client as they are) and
\* TadoConnector.set_zone_off, which differ in the power setting they send:
\* `method` is the name under which the client's set_zone_overlay is called
SetZoneOverlayAs(R, method, zone_id, plan) ==
    IF R.exc # NoExc THEN R
    ELSE
      LET out == Outcome(plan, method, Str(zone_id))
          R1 == ApiCall(R, method, Str(zone_id), out)
      IN IF out \in RequestExceptions THEN UpdateZone(R1, zone_id, plan)
         ELSE IF out \in Exceptions THEN Raise(R1, out)
         ELSE UpdateZone(R1, zone_id, plan)

SetZoneOverlay(R, zone_id, plan) == SetZoneOverlayAs(R, "set_zone_overlay", zone_id, plan)

SetZoneOff(R, zone_id, plan) == SetZoneOverlayAs(R, "set_zone_off", zone_id, plan)

\* the presets set_presence acts on, with the client call of each
PresenceCall == [away |-> "set_away", home |-> "set_home", auto |-> "set_auto"]

\* TadoConnector.set_presence
SetPresence(R, presence, plan) ==
    IF R.exc # NoExc THEN R
    ELSE
      LET known == presence \in DOMAIN PresenceCall
          method == IF known THEN PresenceCall[presence] ELSE ""
          out == Outcome(plan, method, "")
          R1 == IF known THEN ApiCall(R, method, "", out) ELSE R
      IN IF known /\ out \in Exceptions THEN Raise(R1, out)
         ELSE UpdateHome(UpdateZones(R1, plan), plan)

\* set_meter_reading without its check of the client
SetMeterReadingUnchecked(R, plan) ==
    LET out == Outcome(plan, "set_eiq_meter_readings", "")
        R1 == ApiCall(R, "set_eiq_meter_readings", "", out)
    IN IF out \in RequestExceptions THEN Raise(R1, "HomeAssistantError")
       ELSE IF out \in Exceptions THEN Raise(R1, out)
       ELSE R1

\* TadoConnector.set_meter_reading
SetMeterReading(R, plan) ==
    IF R.exc # NoExc THEN R
    ELSE IF R.c.tado = "" THEN Raise(R, "HomeAssistantError")
    ELSE
      LET out == Outcome(plan, "set_eiq_meter_readings", "")
          R1 == ApiCall(R, "set_eiq_meter_readings", "", out)
      IN IF out \in RequestExceptions THEN Raise(R1, "HomeAssistantError")
         ELSE IF out \in Exceptions THEN Raise(R1, out)
         ELSE R1

----------------------------------------------------------------------------
(* The connector written to: setup() against a remote that answers, then    *)
(* the write operations of the climate entities and of the services against *)
(* a remote whose writes can be rejected and whose reads can fail.          *)

\* the remote's behaviour during a write operation: the write at `site`
\* rejected with a request failure, or one of the reads at `reads` failing
WritePlans(site, reads) ==
    AtHome(FaultPlans(reads, PollKinds) \cup FaultPlans({site}, RequestExceptions))

ZoneArgs(zone_id) == [NoArgs EXCEPT !.device_id = Str(zone_id)]

DoSetZoneOverlay ==
    /\ connector.tado # ""
    /\ \E zone_id \in DOMAIN connector.zones_by_id :
         \E plan \in WritePlans(<<"set_zone_overlay", Str(zone_id)>>, ZoneSites(zone_id)) :
           Finish("set_zone_overlay", ZoneArgs(zone_id), SetZoneOverlay(Here, zone_id, plan))
    /\ UNCHANGED <<entry, home>>

DoSetZoneOff ==
    /\ connector.tado # ""
    /\ \E zone_id \in DOMAIN connector.zones_by_id :
         \E plan \in WritePlans(<<"set_zone_off", Str(zone_id)>>, ZoneSites(zone_id)) :
           Finish("set_zone_off", ZoneArgs(zone_id), SetZoneOff(Here, zone_id, plan))
    /\ UNCHANGED <<entry, home>>

DoResetZoneOverlay ==
    /\ connector.tado # ""
    /\ \E zone_id \in DOMAIN connector.zones_by_id :
         \E plan \in WritePlans(<<"reset_zone_overlay", Str(zone_id)>>, ZoneSites(zone_id)) :
           Finish("reset_zone_overlay", ZoneArgs(zone_id),
                  ResetZoneOverlay(Here, zone_id, plan))
    /\ UNCHANGED <<entry, home>>

\* the presets the climate entity offers, and one it does not
Presences == {"home", "away", "auto", "eco"}

DoSetPresence ==
    /\ connector.tado # ""
    /\ \E presence \in Presences :
         \E plan \in WritePlans(<<Or2(IF presence \in DOMAIN PresenceCall
                                      THEN PresenceCall[presence] ELSE "", "set_home"), "">>,
                                HomeSites \cup UNION {ZoneSites(z) : z \in ZoneIds}) :
           Finish("set_presence", [NoArgs EXCEPT !.device_id = presence],
                  SetPresence(Here, presence, plan))
    /\ UNCHANGED <<entry, home>>

\* the set_meter_reading service, which can be called before setup() as well
DoSetMeterReading ==
    /\ \E plan \in WritePlans(<<"set_eiq_meter_readings", "">>, {}) :
           Finish("set_meter_reading", NoArgs, SetMeterReading(Here, plan))
    /\ UNCHANGED <<entry, home>>

WriteNext ==
    \/ DoSetupOk
    \/ DoSetZoneOverlay
    \/ DoSetZoneOff
    \/ DoResetZoneOverlay
    \/ DoSetPresence
    \/ DoSetMeterReading
    \/ Return

WriteSpec == PollInit /\ [][WriteNext]_vars

----------------------------------------------------------------------------
(* C12, C13: the overlay operations *)

OverlayOps == {"set_zone_overlay", "set_zone_off", "reset_zone_overlay"}

\* the position in the last operation's events of its remote write (0: none)
WriteAt == IF op.tr # <<>> /\ op.tr[1][1] = "call" /\ op.tr[1][2] = op.name THEN 1 ELSE 0

\* C12: an overlay operation (set_zone_overlay, set_zone_off,
\* reset_zone_overlay) whose remote write is rejected returns normally.
C12_RejectedOverlayWriteAbsorbed ==
    (op.name \in OverlayOps /\ WriteAt = 1 /\ op.tr[1][4] \in RequestExceptions)
        => op.exc = NoExc

\* C13: in every overlay operation on zone z the remote write comes first,
\* a fetch of z's state follows it, and no other zone's state is fetched.
C13_WriteThenRepollOfZone ==
    op.name \in OverlayOps =>
        /\ WriteAt = 1
        /\ op.tr[1][3] = op.args.device_id
        /\ \E i \in 2..Len(op.tr) :
              op.tr[i][1] = "call" /\ op.tr[i][2] = "get_zone_state"
                  /\ op.tr[i][3] = op.args.device_id
        /\ \A i \in 1..Len(op.tr) :
              (op.tr[i][1] = "call" /\ op.tr[i][2] = "get_zone_state")
                  => op.tr[i][3] = op.args.device_id

----------------------------------------------------------------------------
(* C14: set_presence *)

\* C14: set_presence with home, away or auto makes exactly one presence call,
\* the matching one, and once the remote has accepted it fetches the state of
\* every known zone, then the weather and, the weather fetched, the home
\* state.
C14_PresenceThenFullRepoll ==
    (op.name = "set_presence" /\ op.args.device_id \in DOMAIN PresenceCall) =>
        /\ Cardinality({i \in 1..Len(op.tr) :
               op.tr[i][1] = "call" /\ op.tr[i][2] \in {"set_home", "set_away", "set_auto"}}) = 1
        /\ op.tr[1][1] = "call" /\ op.tr[1][2] = PresenceCall[op.args.device_id]
        /\ op.tr[1][4] = "ok" =>
              /\ \A z \in DOMAIN connector.zones_by_id :
                    \E i \in 2..Len(op.tr) : op.tr[i][1] = "call"
                        /\ op.tr[i][2] = "get_zone_state" /\ op.tr[i][3] = Str(z)
              /\ \E i \in 2..Len(op.tr) : op.tr[i][1] = "call" /\ op.tr[i][2] = "get_weather"
              /\ CalledWith("get_weather", "", "ok") => Called("get_home_state")

----------------------------------------------------------------------------
(* C15: set_meter_reading without a client *)

\* C15: set_meter_reading on a connector whose client was never created ends
\* in the user-facing HomeAssistantError and makes no remote call.
C15_MeterReadingNeedsClient ==
    (op.name = "set_meter_reading" /\ connector.tado = "")
        => /\ op.exc = "HomeAssistantError"
           /\ \A i \in 1..Len(op.tr) : op.tr[i][1] # "call"

C15_Witness ==
    /\ op.name = "set_meter_reading"
    /\ connector.tado = ""
    /\ op.exc = "HomeAssistantError"
    /\ op.tr = <<>>

----------------------------------------------------------------------------
(* Auto-adjustment of the offsets of a zone *)

\* float("nan"): the value no comparison holds of
NaN == 1000000

\* a < b on floats
Less(a, b) == a # NaN /\ b # NaN /\ a < b

\* a state of a reference sensor in hass.states: state "" for a sensor the
\* registry does not hold, "num" for a numeral of the given value
Reading(state, value) == [state |-> state, value |-> value]

\* float(sensor_state.state), <<>> for ValueError: float() parses numerals and
\* "nan" alike
ParseFloat(reading) ==
    IF reading.state = "num" THEN <<reading.value>>
    ELSE IF reading.state = "nan" THEN <<NaN>>
    ELSE <<>>

\* the loop of _auto_adjust_offsets over the sensors of the zone
RECURSIVE SensorTemps(_, _, _)
SensorTemps(readings, sensor_ids, i) ==
    IF i > Len(sensor_ids) THEN <<>>
    ELSE LET sensor_state == readings[sensor_ids[i]]
             rest == SensorTemps(readings, sensor_ids, i + 1)
         IN IF sensor_state.state = "" THEN rest
            ELSE IF sensor_state.state \in {"unknown", "unavailable"} THEN rest
            ELSE ParseFloat(sensor_state) \o rest

\* min(sensor_temps) of a non-empty list, as the builtin computes it: the
\* first item, replaced by every later item that compares less
RECURSIVE PyMin(_, _, _)
PyMin(temps, i, best) ==
    IF i > Len(temps) THEN best
    ELSE PyMin(temps, i + 1, IF Less(temps[i], best) THEN temps[i] ELSE best)

\* sensor_temp = min(sensor_temps)
SensorTemp(temps) == PyMin(temps, 2, temps[1])

\* the two-letter prefix of the device types of the listings
TypePrefix == [VA02 |-> "VA", RU01 |-> "RU", IB01 |-> "IB"]

\* LINKABLE_DEVICE_PREFIXES: valves and room units
LinkablePrefixes == {"VA", "RU"}

\* device_type and device_type.startswith(LINKABLE_DEVICE_PREFIXES)
Linkable(device_type) ==
    device_type \in DOMAIN TypePrefix /\ TypePrefix[device_type] \in LinkablePrefixes

\* the device takes part in the adjustment of the zone: it is linkable and
\* the device-zone map (by its key, else by the legacy suffix) names the zone
MappedTo(c, device, device_key, zone_key) ==
    LET first == DictGet(c.device_zone_map, device_key)
        mapped_zone == IF first = <<>> /\ HasColon(device_key)
                       THEN DictGet(c.device_zone_map, LegacyKey(device_key)) ELSE first
    IN Linkable(GetDeviceType(device)) /\ mapped_zone = <<zone_key>>

DeviceKeyAt(c, i) ==
    IF c.devices[i].device_key # <<>> THEN c.devices[i].device_key
    ELSE GetDeviceKey(c.devices[i], i - 1)

\* the first loop over the devices: the current offsets of the zone's devices
RECURSIVE CurrentOffsets(_, _, _)
CurrentOffsets(c, zone_key, i) ==
    IF i > Len(c.devices) THEN <<>>
    ELSE LET device == c.devices[i]
             device_key == DeviceKeyAt(c, i)
             rest == CurrentOffsets(c, zone_key, i + 1)
         IN IF MappedTo(c, device, device_key, zone_key)
            THEN GetDeviceOffsetByKey(c, device, device_key) \o rest
            ELSE rest

RECURSIVE Sum(_, _)
Sum(xs, i) == IF i > Len(xs) THEN 0 ELSE xs[i] + Sum(xs, i + 1)

\* max(-10.0, min(10.0, num / den)) without the bounds
Unclamped(num, den) == [num |-> num, den |-> den]

\* max(-10.0, min(10.0, num / den)), as the fraction it leaves
Clamp(num, den) ==
    IF num > 1000 * den THEN [num |-> 1000, den |-> 1]
    ELSE IF num < (-1000) * den THEN [num |-> -1000, den |-> 1]
    ELSE [num |-> num, den |-> den]

\* round(num / den, 1): the nearest tenth of a degree; half-way between two
\* tenths the binary float lies on either side, `up` says on which
Round1(num, den, up) ==
    LET d == 10 * den
        low == num \div d
        twice == 2 * (num - low * d)
    IN IF twice < d THEN 10 * low
       ELSE IF twice > d THEN 10 * (low + 1)
       ELSE IF up THEN 10 * (low + 1) ELSE 10 * low

\* a target computed as if no offset were applied yet (avg_offset = 0.0)
TargetOffsetNoAverage(sensor_temp, current_temp, current_offsets, fp) ==
    LET clamped == Clamp(sensor_temp - current_temp, 1)
    IN IF sensor_temp = NaN THEN 1000
       ELSE Round1(clamped.num, clamped.den, fp.up)

\* target_offset of _auto_adjust_offsets: avg_offset is the mean of the
\* current offsets (0.0 for none), raw_temp = current_temp - avg_offset,
\* target = sensor_temp - raw_temp, clamped, then rounded
TargetOffset(sensor_temp, current_temp, current_offsets, fp) ==
    LET den == IF current_offsets = <<>> THEN 1 ELSE Len(current_offsets)
        num == den * (sensor_temp - current_temp) + Sum(current_offsets, 1)
        clamped == Clamp(num, den)
    IN IF sensor_temp = NaN THEN 1000
       ELSE Round1(clamped.num, clamped.den, fp.up)

\* abs(last_offset - target_offset) < 0.1 with nothing within 0.1
NeverNear(last_offset, target_offset, fp) == FALSE

\* abs(last_offset - target_offset) < 0.1; at a distance of one tenth the
\* binary floats differ by less or by more, `near` says which
Near(last_offset, target_offset, fp) ==
    LET d == IF last_offset >= target_offset THEN last_offset - target_offset
             ELSE target_offset - last_offset
    IN d < 10 \/ (d = 10 /\ fp.near)

\* the second loop over the devices: the writes
RECURSIVE AdjustLoop(_, _, _, _, _, _)
AdjustLoop(R, zone_key, target_offset, i, fp, plan) ==
    IF R.exc # NoExc \/ i > Len(R.c.devices) THEN R
    ELSE
      LET device == R.c.devices[i]
          device_key == DeviceKeyAt(R.c, i)
          device_id == Or2(RawDeviceId(device), GetDeviceIdOverride(R.c, device, device_key))
          last_offset == GetDeviceOffsetByKey(R.c, device, device_key)
          R1 == Log(R, Ev("adjust", "set_temperature_offset", device_id, target_offset))
      IN IF ~MappedTo(R.c, device, device_key, zone_key) \/ device_id = ""
         THEN AdjustLoop(R, zone_key, target_offset, i + 1, fp, plan)
         ELSE IF last_offset # <<>> /\ Near(last_offset[1], target_offset, fp)
         THEN AdjustLoop(R, zone_key, target_offset, i + 1, fp, plan)
         ELSE AdjustLoop(
                  SetTemperatureOffset(R1, device_id, target_offset, device_key, FALSE, plan),
                  zone_key, target_offset, i + 1, fp, plan)

\* zone_data = self.data["zone"].get(zone_id) and its current_temp; <<>> when
\* either is None
CurrentTemp(c, zone_id) ==
    LET zone_data == DictGet(c.data.zone, zone_id)
    IN IF zone_data = <<>> THEN <<>> ELSE zone_data[1].current_temp

\* the part of TadoConnector._auto_adjust_offsets that reads: the early
\* returns and the target offset computed (<<>>: the run returned early);
\* readings is hass.states
AdjustTarget(c, zone_id, readings, fp) ==
    LET zone_key == Str(zone_id)
        mapped == DictGet(c.zone_sensor_map, zone_key)
        sensor_ids == IF mapped = <<>> THEN <<>> ELSE mapped[1]
        sensor_temps == SensorTemps(readings, sensor_ids, 1)
        current_temp == CurrentTemp(c, zone_id)
    IN IF c.device_zone_map = EmptyDict \/ c.zone_sensor_map = EmptyDict THEN <<>>
       ELSE IF sensor_ids = <<>> THEN <<>>
       ELSE IF sensor_temps = <<>> THEN <<>>
       ELSE IF current_temp = <<>> THEN <<>>
       ELSE <<TargetOffset(SensorTemp(sensor_temps), current_temp[1],
                           CurrentOffsets(c, zone_key, 1), fp)>>

\* TadoConnector._auto_adjust_offsets(zone_id)
AutoAdjustOffsets(R, zone_id, readings, fp, plan) ==
    IF R.exc # NoExc THEN R
    ELSE LET target == AdjustTarget(R.c, zone_id, readings, fp)
         IN IF target = <<>> THEN R
            ELSE AdjustLoop(R, Str(zone_id), target[1], 1, fp, plan)

----------------------------------------------------------------------------
(* The connector auto-adjusting: a home with a valve, a room unit and a     *)
(* bridge; setup(), the options that map devices and sensors to zones,      *)
(* polls of the zones and runs of _auto_adjust_offsets over the sensors'    *)
(* states.                                                                  *)

VAKey == <<"VA02", "VA1">>

\* the device-zone map and the zone-sensor map the options can hold: the
\* valve (by its key), the room unit (by its legacy key) and the bridge in
\* zone 1, whose sensors are supplied as "sensor.a,,sensor.b,sensor.a"
ZoneMapChoices ==
    LET devices == (VAKey :> "1") @@ (<<"RU1">> :> "1") @@ (<<"IB01", "#3">> :> "1")
        sensors == ("1" :> <<"sensor.a", "", "sensor.b", "sensor.a">>)
                       @@ ("" :> <<"sensor.b">>) @@ ("2" :> <<"">>)
    IN {[device_zone_map |-> devices, zone_sensor_map |-> sensors],
        [device_zone_map |-> EmptyDict, zone_sensor_map |-> sensors],
        [device_zone_map |-> devices, zone_sensor_map |-> EmptyDict]}

\* the inside temperatures a zone state can carry
ZoneTemps == {<<>>, <<2000>>}

\* the states of the two sensors, sensor.a first
SensorStates2 ==
    {<<Reading("num", 2100), Reading("num", 2000)>>,
     <<Reading("num", 2000), Reading("num", 2100)>>,
     <<Reading("num", 2000), Reading("unavailable", 0)>>,
     <<Reading("unknown", 0), Reading("unavailable", 0)>>,
     <<Reading("", 0), Reading("warm", 0)>>,
     <<Reading("nan", 0), Reading("num", 2000)>>,
     <<Reading("nan", 0), Reading("unknown", 0)>>,
     <<Reading("num", 3500), Reading("num", 3600)>>,
     <<Reading("num", 500), Reading("unknown", 0)>>}

HassStates == {("sensor.a" :> r[1]) @@ ("sensor.b" :> r[2]) : r \in SensorStates2}

\* the sides the binary rounding of a run can fall on: above the decimal
\* value (a half-way target rounds up, a distance of one tenth is no longer
\* within it) or below
FloatSides == {[up |-> b, near |-> ~b] : b \in BOOLEAN}

AdjustInit ==
    /\ \E o \in {EmptyDict, [k \in {VAKey} |-> 204]} :
           connector = NewConnector(o, EmptyDict, [k \in {"IB01"} |-> "IB9"], EmptyDict)
    /\ runtime_set = EmptyDict
    /\ op = Idle
    /\ entry = NotLoaded
    /\ home = [me |-> "PRE_LINE_X", listing |-> <<RawVA, RawRU, RawIB>>, mobiles |-> <<>>,
               rejections |-> 0]

DoSetZoneMaps ==
    /\ op = Idle
    /\ \E maps \in ZoneMapChoices :
           connector' = UpdateRuntimeOptions(connector,
               [device_id_overrides |-> connector.device_id_overrides,
                device_offsets |-> connector.device_offsets,
                device_zone_map |-> maps.device_zone_map,
                zone_sensor_map |-> maps.zone_sensor_map])
    /\ op' = [Idle EXCEPT !.name = "update_runtime_options"]
    /\ UNCHANGED <<runtime_set, entry, home>>

DoPollZones ==
    /\ connector.tado # ""
    /\ \E t \in ZoneTemps :
         \E plan \in AtHome({[NoFaultPlan EXCEPT !.temp = t]}) :
           Finish("update_zones", NoArgs, UpdateZones(Here, plan))
    /\ UNCHANGED <<entry, home>>

AdjustArgs(zone_id, readings, fp) ==
    [device_id |-> Str(zone_id), offset |-> 0, device_key |-> <<>>,
     zone_id |-> zone_id, readings |-> readings, fp |-> fp]

DoAutoAdjustOffsets ==
    /\ connector.tado # ""
    /\ \E zone_id \in ZoneIds, readings \in HassStates, fp \in FloatSides :
         \E plan \in AtHome(FaultPlans({<<"set_temp_offset", d>> : d \in {"VA1", "RU1"}},
                                      FaultKinds)) :
           /\ plan.faults # {} => home.rejections < MaxRejections
           /\ Finish("auto_adjust_offsets", AdjustArgs(zone_id, readings, fp),
                     AutoAdjustOffsets(Here, zone_id, readings, fp, plan))
           /\ home' = IF plan.faults = {} THEN home
                      ELSE [home EXCEPT !.rejections = @ + 1]
    /\ UNCHANGED entry

AdjustNext ==
    \/ DoSetupOk
    \/ DoSetZoneMaps
    \/ DoPollZones
    \/ DoAutoAdjustOffsets
    \/ Return

AdjustSpec == AdjustInit /\ [][AdjustNext]_vars

----------------------------------------------------------------------------
(* C17..C20: what a run of the auto-adjustment computes and writes *)

\* a run of _auto_adjust_offsets is the step being taken
AdjustStep == op.name = "idle" /\ op'.name = "auto_adjust_offsets"

\* the sensors mapped to the zone of the run
RunSensors ==
    LET mapped == DictGet(connector.zone_sensor_map, op'.args.device_id)
    IN IF mapped = <<>> THEN {} ELSE {mapped[1][i] : i \in 1..Len(mapped[1])}

\* the valid numeric readings of those sensors
ValidReadings ==
    {op'.args.readings[sensor].value :
        sensor \in {x \in RunSensors : op'.args.readings[x].state = "num"}}

\* the zone's current temperature and the current offsets of its devices
\* before the run
RunTemp == CurrentTemp(connector, op'.args.zone_id)

RunOffsets == CurrentOffsets(connector, op'.args.device_id, 1)

\* the linkable devices mapped to the zone of the run
RunDevices ==
    {i \in 1..Len(connector.devices) :
        MappedTo(connector, connector.devices[i], DeviceKeyAt(connector, i),
                 op'.args.device_id)}

\* the positions of the run's events at which an offset is written
RunWrites == {i \in 1..Len(op'.tr) : op'.tr[i][1] = "adjust"}

\* C17: in every run with valid numeric readings, every offset written is
\* the target computed from the least of the valid readings; unavailable,
\* unknown and non-numeric states take no part.
C17_ReferenceIsMinimum ==
    [][(AdjustStep /\ ValidReadings # {} /\ RunTemp # <<>>)
        => LET least == CHOOSE m \in ValidReadings : \A x \in ValidReadings : m <= x
           IN \A i \in RunWrites :
                 op'.tr[i][4] = TargetOffset(least, RunTemp[1], RunOffsets, op'.args.fp)]_vars

\* C18: in every run, a device whose offset before the run is less than 0.1
\* away from the run's target gets no write and keeps its offset.
C18_HysteresisSkipsWrite ==
    [][(AdjustStep /\ RunWrites # {})
        => \A d \in RunDevices :
             LET device == connector.devices[d]
                 device_key == DeviceKeyAt(connector, d)
                 last == GetDeviceOffsetByKey(connector, device, device_key)
                 target == op'.tr[CHOOSE i \in RunWrites : TRUE][4]
             IN (last # <<>> /\ last[1] - target < 10 /\ target - last[1] < 10)
                  => /\ \A i \in 1..Len(op'.tr) :
                          op'.tr[i][1] \in {"adjust", "call"} => op'.tr[i][3] # RawDeviceId(device)
                     /\ GetDeviceOffsetByKey(connector', device, device_key) = last]_vars

C18_Witness ==
    /\ op.name = "auto_adjust_offsets"
    /\ DictGet(connector.device_offsets_current, VAKey) = <<204>>
    /\ CalledWith("set_temp_offset", "RU1", "ok")
    /\ DictGet(connector.device_offsets_current, <<"RU01", "RU1">>) = <<200>>
    /\ ~Called("get_devices")
    /\ \A i \in 1..Len(op.tr) : op.tr[i][1] = "call" => op.tr[i][3] # "VA1"

\* C19: every offset a run writes or stores lies between -10.0 and 10.0; a
\* raw target above 10.0 is written as 10.0 and one below -10.0 as -10.0.
C19_TargetClamped ==
    [][AdjustStep
        => /\ \A i \in RunWrites : op'.tr[i][4] \in (-1000)..1000
           /\ \A k \in DOMAIN connector'.device_offsets_current :
                 (k \notin DOMAIN connector.device_offsets_current
                    \/ connector'.device_offsets_current[k] # connector.device_offsets_current[k])
                 => connector'.device_offsets_current[k] \in (-1000)..1000
           /\ (ValidReadings # {} /\ RunTemp # <<>>) =>
                LET least == CHOOSE m \in ValidReadings : \A x \in ValidReadings : m <= x
                    den == IF RunOffsets = <<>> THEN 1 ELSE Len(RunOffsets)
                    num == den * (least - RunTemp[1]) + Sum(RunOffsets, 1)
                IN \A i \in RunWrites :
                     /\ num > 1000 * den => op'.tr[i][4] = 1000
                     /\ num < (-1000) * den => op'.tr[i][4] = -1000]_vars

C19_Witness ==
    /\ op.name = "auto_adjust_offsets"
    /\ op.args.readings["sensor.a"] = Reading("num", 3500)
    /\ CalledWith("set_temp_offset", "VA1", "ok")
    /\ DictGet(connector.device_offsets_current, VAKey) = <<1000>>

\* C20: a run changes no offset and writes nothing when the device-zone map
\* or the zone-sensor map is empty, when the zone has no mapped sensor, when
\* no mapped sensor has a valid reading, or when the zone has no current
\* temperature.
C20_NothingToAdjust ==
    [][(AdjustStep
          /\ \/ connector.device_zone_map = EmptyDict
             \/ connector.zone_sensor_map = EmptyDict
             \/ RunSensors = {}
             \/ ValidReadings = {}
             \/ RunTemp = <<>>)
        => /\ connector' = connector
           /\ \A i \in 1..Len(op'.tr) : op'.tr[i][1] \notin {"adjust", "call", "record"}]_vars

----------------------------------------------------------------------------
(* C21: offset writes and the linkability gate                              *)

\* the devices of the connector that carry the identifier `device_id` (their
\* own or the one an override gave them)
DevicesWithId(c, device_id) ==
    {j \in 1..Len(c.devices) : RawDeviceId(c.devices[j]) = device_id}

\* C21: every set_temp_offset call made by setup()'s one-shot application of
\* the static offsets or by a run of the auto-adjustment goes to a device
\* whose normalized type starts with a linkable-device prefix.
C21_OffsetWritesOnlyToLinkable ==
    op.name \in {"setup", "auto_adjust_offsets"}
        => \A i \in 1..Len(op.tr) :
              (op.tr[i][1] = "call" /\ op.tr[i][2] = "set_temp_offset")
                 => \A j \in DevicesWithId(connector, op.tr[i][3]) :
                       Linkable(GetDeviceType(connector.devices[j]))

----------------------------------------------------------------------------
(* C22: the zone-sensor map of the connector                                *)

\* C22: in every state reached through construction and
\* update_runtime_options, each zone of the connector's zone-sensor map holds
\* at most one sensor (of several supplied, only the last).
C22_OneSensorPerZone ==
    \A zone_key \in DOMAIN connector.zone_sensor_map :
        Len(connector.zone_sensor_map[zone_key]) <= 1

----------------------------------------------------------------------------
(* The API-call counter observed: a connector set up and polled over a few  *)
(* local dates against a remote whose calls may fail, its counter read      *)
(* between the operations.                                                  *)

\* the local dates after the one of the construction (day 0)
MaxDays == 2

\* an operation starts only while the counter is below this
MaxCalls == 4

\* the context of an operation running on the home's local date
HereToday == [Here EXCEPT !.today = home.today]

\* the operation `name` has run and ended in context R, counter included
FinishCounted(name, args, R) ==
    /\ op = Idle
    /\ connector.api_call_count < MaxCalls
    /\ connector' = R.c
    /\ runtime_set' = R.rs
    /\ op' = [name |-> name, exc |-> R.exc, tr |-> R.tr, args |-> args]
    /\ UNCHANGED <<entry, home>>

CounterInit ==
    /\ connector = NewConnector(EmptyDict, EmptyDict, EmptyDict, EmptyDict)
    /\ runtime_set = EmptyDict
    /\ op = Idle
    /\ entry = NotLoaded
    /\ home = [me |-> "PRE_LINE_X", listing |-> <<RawVA>>, mobiles |-> <<"M1">>, today |-> 0]

CountedSetup ==
    \E plan \in AtHome(FaultPlans({<<"Tado", "">>}, {"KeyError"})
                         \cup FaultPlans({<<"get_me", "">>, <<"get_zones", "">>}, FaultKinds)) :
        FinishCounted("setup", NoArgs, Setup(HereToday, plan))

CountedUpdate ==
    /\ connector.tado # ""
    /\ \E plan \in AtHome(FaultPlans(PollSites, PollKinds)) :
           FinishCounted("update", NoArgs, Update(HereToday, plan))

CountedUpdateZone ==
    /\ connector.tado # ""
    /\ \E zone_id \in DOMAIN connector.zones_by_id :
         \E plan \in AtHome(FaultPlans(ZoneSites(zone_id), PollKinds)) :
           FinishCounted("update_zone", [NoArgs EXCEPT !.device_id = Str(zone_id)],
                         UpdateZone(HereToday, zone_id, plan))

ReadApiCallCount ==
    /\ op = Idle
    /\ connector' = GetApiCallCount(HereToday).c
    /\ op' = [Idle EXCEPT !.name = "get_api_call_count",
                          !.tr = GetApiCallCount(HereToday).tr]
    /\ UNCHANGED <<runtime_set, entry, home>>

\* the local date changes
Midnight ==
    /\ op = Idle
    /\ home.today < MaxDays
    /\ home' = [home EXCEPT !.today = @ + 1]
    /\ UNCHANGED <<connector, runtime_set, op, entry>>

CounterNext ==
    \/ CountedSetup
    \/ CountedUpdate
    \/ CountedUpdateZone
    \/ ReadApiCallCount
    \/ Midnight
    \/ Return

CounterSpec == CounterInit /\ [][CounterNext]_vars

----------------------------------------------------------------------------
(* C23..C25: the API-call counter *)

\* the operations that go through _api_call
CountedOps == {"setup", "update", "update_zone"}

\* the number of remote calls among the events `tr`
NumCalls(tr) == Cardinality({i \in 1..Len(tr) : tr[i][1] = "call"})

\* C23: the first operation that reads the counter or makes a remote call on
\* a local date other than the counter's last-seen date leaves the counter at
\* the new date holding only the calls of that operation (0 after a read).
C23_CounterResetsOnNewDate ==
    [][(op.name = "idle" /\ home.today # connector.api_call_date
          /\ (op'.name = "get_api_call_count"
                \/ (op'.name \in CountedOps /\ NumCalls(op'.tr) > 0)))
        => /\ connector'.api_call_date = home.today
           /\ connector'.api_call_count = NumCalls(op'.tr)]_vars

C23_Witness ==
    /\ op.name = "update_zone"
    /\ \E i \in 1..Len(op.tr) : op.tr[i][1] = "log" /\ op.tr[i][2] = "api_call_counter_reset"
    /\ connector.api_call_date = 1
    /\ connector.api_call_count = 1

\* C24: within one local date every operation adds to the counter the number
\* of remote calls it made, failed calls included.
C24_CounterCountsEveryCall ==
    [][(op.name = "idle" /\ op'.name \in CountedOps
          /\ home.today = connector.api_call_date)
        => connector'.api_call_count = connector.api_call_count + NumCalls(op'.tr)]_vars

C24_Witness ==
    /\ op.name = "update"
    /\ \E i \in 1..Len(op.tr) : op.tr[i][1] = "call" /\ op.tr[i][4] \in PollKinds
    /\ connector.api_call_count > NumCalls(op.tr)
    /\ NumCalls(op.tr) >= 5
    /\ \A i \in 1..Len(op.tr) : op.tr[i][1] # "log"

\* C25: every increment of the counter is accompanied by the change
\* notification about the counter, in setup() as in every other operation.
C25_EveryIncrementSignalled ==
    \A i \in 1..Len(op.tr) : op.tr[i][1] = "count" => op.tr[i][4] = "signalled"

----------------------------------------------------------------------------
(* The Normalizer applied: device records as the listings can hold them,    *)
(* normalized at any position under any of the identifier override tables.  *)

\* a device record with no field set
BlankDevice ==
    [type |-> "", deviceType |-> "", model |-> "", productType |-> "", serialNumber |-> "",
     serialNo |-> "", shortSerialNo |-> "", id |-> "", name |-> "", device_key |-> <<>>,
     caps |-> FALSE]

\* the records normalized: the three of the home, and records that name
\* their type, identifier and name through the other fields the code reads
NormDevices ==
    {RawVA, RawRU, RawIB, BlankDevice,
     [BlankDevice EXCEPT !.model = "va02"],
     [BlankDevice EXCEPT !.productType = "RU01", !.name = "Hall"],
     [BlankDevice EXCEPT !.type = "IB01", !.id = "X1"],
     [BlankDevice EXCEPT !.type = "IB01", !.deviceType = "VA02", !.shortSerialNo = "S1",
                         !.id = "X1", !.name = "Hall"],
     [BlankDevice EXCEPT !.deviceType = "ru01", !.model = "va02", !.id = "X1", !.name = "Hall"],
     [RawVA EXCEPT !.device_key = <<"VA02", "OLD">>],
     [RawIB EXCEPT !.device_key = <<"BRIDGE">>]}

\* the positions a record is normalized at (-1: index is None)
NormIndexes == {-1, 0, 1}

\* the per-device identifier overrides the options can hold: by full key and
\* by legacy bare key
DeviceIdOverrideChoices ==
    {EmptyDict,
     [k \in {<<"IB01", "#1">>} |-> "K1"],
     [k \in {<<"#1">>, <<"X1">>} |-> "L1"],
     (<<"IB01", "#1">> :> "K1") @@ (<<"#1">> :> "L1")}

\* the per-type identifier overrides the connector is constructed with
NormTypeIdOverrideChoices ==
    DeviceTypeIdOverrideChoices
        \cup {[k \in {"*"} |-> "W1"], ("IB01" :> "IB9") @@ ("*" :> "W1")}

NormArgs(device, index) ==
    [device_id |-> "", offset |-> 0, device_key |-> <<>>, device |-> device, index |-> index]

NormInit ==
    /\ \E i \in NormTypeIdOverrideChoices :
           connector = NewConnector(EmptyDict, EmptyDict, i, EmptyDict)
    /\ runtime_set = EmptyDict
    /\ op = Idle
    /\ entry = NotLoaded
    /\ home = [me |-> "PRE_LINE_X", listing |-> <<>>, mobiles |-> <<>>]

DoSetIdOverrides ==
    /\ \E o \in DeviceIdOverrideChoices :
           connector' = UpdateRuntimeOptions(connector,
               [device_id_overrides |-> o,
                device_offsets |-> connector.device_offsets,
                device_zone_map |-> connector.device_zone_map,
                zone_sensor_map |-> connector.zone_sensor_map])
    /\ op' = [Idle EXCEPT !.name = "update_runtime_options"]
    /\ UNCHANGED <<runtime_set, entry, home>>

\* _normalize_device(device, index) on a record of a listing; the event holds
\* the normalized record
DoNormalizeDevice ==
    /\ \E device \in NormDevices, index \in NormIndexes :
           op' = [name |-> "normalize_device", exc |-> NoExc,
                  tr |-> <<Ev("return", "normalize_device", "",
                              NormalizeDevice(connector, device, index))>>,
                  args |-> NormArgs(device, index)]
    /\ UNCHANGED <<connector, runtime_set, entry, home>>

NormNext == DoSetIdOverrides \/ DoNormalizeDevice

NormSpec == NormInit /\ [][NormNext]_vars

----------------------------------------------------------------------------
(* C26..C28: device keys and identifier overrides *)

\* the record the last operation normalized, and the record it gave
Normalized == op.tr[1][4]

\* C26: the same record normalized at its position in one listing, then at
\* its position in the next, gets the same device_key both times.
C26_DeviceKeyStableAcrossListings ==
    [][(op.name = "normalize_device" /\ op'.name = "normalize_device"
          /\ op'.args.device = op.args.device
          /\ op.args.index >= 0 /\ op'.args.index >= 0)
        => op'.tr[1][4].device_key = op.tr[1][4].device_key]_vars

\* the first non-empty of the strings `xs` ("" when there is none)
RECURSIVE FirstPresent(_, _)
FirstPresent(xs, i) ==
    IF i > Len(xs) THEN "" ELSE IF xs[i] # "" THEN xs[i] ELSE FirstPresent(xs, i + 1)

\* the keys get_device_key chooses from for a record with a type, in order
\* (<<>>: not available)
KeyCandidates(d, index) ==
    LET TYPE == Upper(FirstPresent(<<d.type, d.deviceType, d.model, d.productType>>, 1))
        serial == FirstPresent(<<d.serialNumber, d.serialNo, d.shortSerialNo>>, 1)
        with(part) == IF part = "" THEN <<>> ELSE <<TYPE, part>>
    IN <<d.device_key, with(serial), with(d.id), with(d.name),
         IF index >= 0 THEN <<TYPE, "#" \o Str(index + 1)>> ELSE <<>>,
         <<TYPE>>>>

\* C27: the key of a record that names a type is the first available of its
\* explicit device_key, TYPE:serial, TYPE:id, TYPE:name, TYPE:#position and
\* TYPE, with TYPE the upper-cased first present of type, deviceType, model
\* and productType.
C27_DeviceKeyFirstAvailable ==
    (op.name = "normalize_device" /\ GetDeviceType(op.args.device) # "")
        => LET cands == KeyCandidates(op.args.device, op.args.index)
               first == CHOOSE i \in 1..Len(cands) :
                            cands[i] # <<>> /\ \A j \in 1..(i - 1) : cands[j] = <<>>
           IN Normalized.device_key = cands[first]

C27_Witness ==
    /\ op.name = "normalize_device"
    /\ op.args.device = [BlankDevice EXCEPT !.model = "va02"]
    /\ Normalized.device_key = <<"VA02", "#2">>

\* C28: a record with no serial-like identifier for which an override
\* resolves (device key, legacy bare key, exact type, "*") gets serialNumber,
\* serialNo, shortSerialNo and id from the override; every other record keeps
\* its identifier fields.
C28_OverrideSynthesizesIdentifiers ==
    op.name = "normalize_device"
        => LET d == op.args.device
               has_serial == d.serialNumber # "" \/ d.serialNo # "" \/ d.shortSerialNo # ""
               override == GetDeviceIdOverride(connector, d, Normalized.device_key)
           IN IF ~has_serial /\ override # ""
              THEN /\ Normalized.serialNumber = override
                   /\ Normalized.serialNo = override
                   /\ Normalized.shortSerialNo = override
                   /\ Normalized.id = override
              ELSE /\ Normalized.serialNumber = d.serialNumber
                   /\ Normalized.serialNo = d.serialNo
                   /\ Normalized.shortSerialNo = d.shortSerialNo
                   /\ Normalized.id = d.id

----------------------------------------------------------------------------
(* Two auto-adjustment runs for one zone: the periodic recalculation and a  *)
(* sensor-event recalculation, handed to the executor with the sensors'     *)
(* states and the stored zone temperature the same for both; the remote     *)
(* accepts every write. The second run reads either after the first has     *)
(* written (one after the other) or before (overlapped).                    *)

\* the event that separates the two runs in the events of the operation
SecondJob(zone_id) == Ev("job", "auto_adjust_offsets", Str(zone_id), "")

DoAutoAdjustOffsetsTwice ==
    /\ connector.tado # ""
    /\ \E zone_id \in ZoneIds, readings \in HassStates, fp \in FloatSides,
          fp2 \in FloatSides, overlap \in BOOLEAN :
         \E plan \in AtHome({NoFaultPlan}) :
           \E first \in {Log(AutoAdjustOffsets(Here, zone_id, readings, fp, plan),
                             SecondJob(zone_id))} :
             \E target \in {AdjustTarget(connector, zone_id, readings, fp)} :
               Finish("auto_adjust_offsets_twice",
                      [overlap |-> overlap] @@ AdjustArgs(zone_id, readings, fp),
                      IF ~overlap THEN AutoAdjustOffsets(first, zone_id, readings, fp2, plan)
                      ELSE IF target = <<>> THEN first
                      ELSE AdjustLoop(first, Str(zone_id), target[1], 1, fp, plan))
    /\ UNCHANGED <<entry, home>>

RecalcNext ==
    \/ DoSetupOk
    \/ DoSetZoneMaps
    \/ DoPollZones
    \/ DoAutoAdjustOffsetsTwice
    \/ Return

RecalcSpec == AdjustInit /\ [][RecalcNext]_vars

----------------------------------------------------------------------------
(* C29, C30: two runs with the same readings *)

\* C29: when _auto_adjust_offsets runs twice in a row for a zone, the
\* sensors' states and the stored zone temperature unchanged and every write
\* accepted, the second run makes no set_temp_offset call.
C29_SecondRunWritesNothing ==
    (op.name = "auto_adjust_offsets_twice" /\ ~op.args.overlap)
        => \A k \in 1..Len(op.tr) :
              op.tr[k][1] = "job"
                 => \A i \in (k + 1)..Len(op.tr) :
                       ~(op.tr[i][1] = "call" /\ op.tr[i][2] = "set_temp_offset")

\* C30: however the two runs for a zone interleave, the offsets stored at
\* the end are those a single run from the same state stores.
C30_TwoRunsStoreWhatOneStores ==
    [][(op.name = "idle" /\ op'.name = "auto_adjust_offsets_twice")
        => connector'.device_offsets_current =
              AutoAdjustOffsets(Here, op'.args.zone_id, op'.args.readings, op'.args.fp,
                                NoFaultPlan).c.device_offsets_current]_vars

----------------------------------------------------------------------------
(* C31: the target offset of a run *)

\* the magnitude of an integer
Abs(x) == IF x >= 0 THEN x ELSE -x

\* C31: in a run whose mapped sensors give numbers only, every offset written
\* is a whole number of tenths and the nearest one to
\* reference - (zone temperature - avg_offset) brought into [-10.0, 10.0],
\* avg_offset being the mean of the zone's resolved current offsets (0.0 for
\* none) and reference the least reading.
C31_TargetOffsetFormula ==
    [][(AdjustStep /\ ValidReadings # {} /\ RunTemp # <<>>
          /\ \A x \in RunSensors : op'.args.readings[x].state # "nan")
        => LET reference == CHOOSE m \in ValidReadings : \A x \in ValidReadings : m <= x
               n == IF RunOffsets = <<>> THEN 1 ELSE Len(RunOffsets)
               \* n times the unclamped target, then n times the clamped one
               raw == n * reference - (n * RunTemp[1] - Sum(RunOffsets, 1))
               bounded == IF raw > 1000 * n THEN 1000 * n
                          ELSE IF raw < (-1000) * n THEN (-1000) * n ELSE raw
           IN \A i \in RunWrites :
                 /\ op'.tr[i][4] % 10 = 0
                 /\ 2 * Abs(n * op'.tr[i][4] - bounded) <= 10 * n]_vars

C31_Witness ==
    /\ op.name = "auto_adjust_offsets"
    /\ op.args.readings["sensor.a"] = Reading("num", 2100)
    /\ \E i \in 1..Len(op.tr) : op.tr[i] = Ev("adjust", "set_temperature_offset", "RU1", 200)
    /\ DictGet(connector.device_offsets_current, VAKey) = <<204>>

----------------------------------------------------------------------------
(* The device listing over time: setup(), then device polls against a home  *)
(* whose listing changes between them (a device paired, the order changed). *)

\* the listings the remote serves over the life of the home
HomeListings == {<<RawVA>>, <<RawVA, RawRU>>, <<RawRU, RawVA>>, <<RawIB, RawVA>>}

ListingInit ==
    /\ \E i \in DeviceTypeIdOverrideChoices :
           connector = NewConnector(EmptyDict, EmptyDict, i, EmptyDict)
    /\ runtime_set = EmptyDict
    /\ op = Idle
    /\ entry = NotLoaded
    /\ home = [me |-> "PRE_LINE_X", listing |-> <<RawVA>>, mobiles |-> <<"M1">>]

\* the remote's device listing changes
RemoteListingChanges ==
    /\ op = Idle
    /\ \E l \in HomeListings \ {home.listing} : home' = [home EXCEPT !.listing = l]
    /\ UNCHANGED <<connector, runtime_set, op, entry>>

ListingNext ==
    \/ DoSetupOk
    \/ RemoteListingChanges
    \/ DoUpdateDevices
    \/ Return

ListingSpec == ListingInit /\ [][ListingNext]_vars

----------------------------------------------------------------------------
(* C32: the device records after a device poll *)

\* every remote call of the last operation was answered
AllCallsAnswered == \A i \in 1..Len(op.tr) : op.tr[i][1] = "call" => op.tr[i][4] = "ok"

\* C32: after an update_devices whose calls all succeeded, connector.devices
\* (what offset resolution and the auto-adjustment iterate) is the listing of
\* that poll, normalized.
C32_DevicesAreThePolledListing ==
    (op.name = "update_devices" /\ op.exc = NoExc /\ AllCallsAnswered)
        => connector.devices = NormalizeAll(connector, home.listing, 1)

----------------------------------------------------------------------------
(* C33: a pass of update_zones *)

\* the positions in the last operation's events of the events of the given
\* kind about zone z
ZoneEvents(kind, what, z) ==
    {i \in 1..Len(op.tr) : op.tr[i][1] = kind /\ op.tr[i][2] = what /\ op.tr[i][3] = z}

\* C33: in update_zones the state of every known zone is fetched; a zone
\* whose fetch succeeds has its state stored and then exactly one zone
\* notification sent, a zone whose fetch fails gets none.
C33_EveryZonePolledAndNotified ==
    op.name = "update_zones"
        => \A zone_id \in DOMAIN connector.zones_by_id :
              LET z == Str(zone_id)
                  fetches == ZoneEvents("call", "get_zone_state", z)
                  notes == ZoneEvents("notify", "zone", z)
              IN /\ Cardinality(fetches) = 1
                 /\ \A i \in fetches :
                       IF op.tr[i][4] = "ok"
                       THEN /\ Cardinality(notes) = 1
                            /\ \A n \in notes :
                                  \E k \in i..n : op.tr[k][1] = "store" /\ op.tr[k][2] = "zone"
                       ELSE notes = {}

----------------------------------------------------------------------------
(* Recalculation entry points: the sensor listener and the timer's job *)

\* int(zone_id) of a key of the zone-sensor map; <<>> is its ValueError
IntOf(zone_id) ==
    CASE zone_id = "1" -> <<1>> [] zone_id = "2" -> <<2>> [] zone_id = "3" -> <<3>>
      [] OTHER -> <<>>

\* the order the options supply the zones of the zone-sensor map in, which is
\* the order the map is iterated in
ZoneKeyOrder == <<"1", "x", "2">>

\* the keys of the connector's zone-sensor map, in iteration order
MappedZoneKeys(c) == SelectSeq(ZoneKeyOrder, LAMBDA k : k \in DOMAIN c.zone_sensor_map)

\* a ValueError of int(zone_id) that no except clause catches
RaiseInvalid(R, zone_id) == Raise(R, "ValueError")

\* except ValueError: the warning "Invalid zone id in zone sensor map"
SkipInvalid(R, zone_id) == Log(R, Ev("log", "invalid_zone_id", zone_id, ""))

\* self._auto_adjust_offsets(int(zone_id)) inside its try statement
RecalcZone(R, zone_id, readings, fp, plan) ==
    IF IntOf(zone_id) = <<>> THEN SkipInvalid(R, zone_id)
    ELSE AutoAdjustOffsets(Log(R, Ev("recalc", "_auto_adjust_offsets", zone_id, "")),
                           IntOf(zone_id)[1], readings, fp, plan)

RECURSIVE ForSensorFrom(_, _, _, _, _, _)
ForSensorFrom(R, i, sensor_id, readings, fp, plan) ==
    IF R.exc # NoExc \/ i > Len(MappedZoneKeys(R.c)) THEN R
    ELSE LET zone_id == MappedZoneKeys(R.c)[i]
             sensors == NormalizeZoneSensors(R.c.zone_sensor_map[zone_id], 1, <<>>)
         IN IF \E j \in 1..Len(sensors) : sensors[j] = sensor_id
            THEN ForSensorFrom(RecalcZone(R, zone_id, readings, fp, plan),
                               i + 1, sensor_id, readings, fp, plan)
            ELSE ForSensorFrom(R, i + 1, sensor_id, readings, fp, plan)

\* TadoConnector.auto_adjust_offsets_for_sensor
AutoAdjustOffsetsForSensor(R, sensor_id, readings, fp, plan) ==
    IF R.c.zone_sensor_map = EmptyDict THEN R
    ELSE ForSensorFrom(R, 1, sensor_id, readings, fp, plan)

RECURSIVE AllFrom(_, _, _, _, _)
AllFrom(R, i, readings, fp, plan) ==
    IF R.exc # NoExc \/ i > Len(MappedZoneKeys(R.c)) THEN R
    ELSE AllFrom(RecalcZone(R, MappedZoneKeys(R.c)[i], readings, fp, plan),
                 i + 1, readings, fp, plan)

\* TadoConnector.auto_adjust_offsets_all
AutoAdjustOffsetsAll(R, readings, fp, plan) ==
    IF R.c.zone_sensor_map = EmptyDict THEN R
    ELSE AllFrom(R, 1, readings, fp, plan)

\* _normalize_zone_sensors of __init__.py: only the last sensor is kept
LastZoneSensor(value) ==
    LET result == NormalizeZoneSensors(value, 1, <<>>)
    IN IF result = <<>> THEN <<>> ELSE <<result[Len(result)]>>

\* the entities _register_zone_sensor_listeners tracks: the flattened map
\* of the last sensors of the options' zones
SensorEntities(zone_sensor_map) ==
    {LastZoneSensor(zone_sensor_map[k])[1] :
        k \in {z \in DOMAIN zone_sensor_map : z # "" /\ LastZoneSensor(zone_sensor_map[z]) # <<>>}}

\* the options of the recalculation runs: the valve in zone 1, the room unit
\* in zone 2, and a zone-sensor map with the key "x", which is no integer
RecomputeMapChoices ==
    LET devices == (VAKey :> "1") @@ (<<"RU1">> :> "2")
    IN {[device_zone_map |-> devices,
         zone_sensor_map |-> ("1" :> <<"sensor.a">>) @@ ("x" :> <<"sensor.a">>)
                                @@ ("2" :> <<"sensor.a">>)],
        [device_zone_map |-> devices,
         zone_sensor_map |-> ("1" :> <<"sensor.a", "sensor.b">>) @@ ("x" :> <<"sensor.b">>)
                                @@ ("2" :> <<"sensor.b">>)],
        [device_zone_map |-> devices,
         zone_sensor_map |-> ("1" :> <<"sensor.b">>) @@ ("2" :> <<"sensor.a">>)]}

DoSetRecomputeMaps ==
    /\ op = Idle
    /\ \E maps \in RecomputeMapChoices :
           connector' = UpdateRuntimeOptions(connector,
               [device_id_overrides |-> connector.device_id_overrides,
                device_offsets |-> connector.device_offsets,
                device_zone_map |-> maps.device_zone_map,
                zone_sensor_map |-> maps.zone_sensor_map])
    /\ op' = [Idle EXCEPT !.name = "update_runtime_options"]
    /\ UNCHANGED <<runtime_set, entry, home>>

\* the remote's behaviour during a recalculation: a write may be refused
RecomputePlans ==
    AtHome(FaultPlans({<<"set_temp_offset", d>> : d \in {"VA1", "RU1"}}, {"TadoException"}))

\* the sensor states at the time of a recalculation: both numeric, neither
\* usable, and sensor.a without a state while sensor.b reports a text
RecomputeStates ==
    {h \in HassStates :
        h["sensor.a"] \in {Reading("num", 2100), Reading("unknown", 0), Reading("", 0)}}

\* the job _sensor_state_listener handed to the executor, <<>> for none
ScheduledJob(R) ==
    IF R.tr # <<>> /\ R.tr[Len(R.tr)][1] = "job" THEN <<R.tr[Len(R.tr)][3]>> ELSE <<>>

\* a state-change event of a reference sensor: the listener runs when the
\* entity is tracked, and the executor then runs the job it scheduled
SensorStateChange ==
    /\ connector.tado # ""
    /\ \E entity_id \in {"sensor.a", "sensor.b"}, readings \in RecomputeStates,
          old_state \in SensorStates, fp \in {f \in FloatSides : f.near},
          plan \in RecomputePlans :
         \E R1 \in {IF entity_id \in SensorEntities(connector.zone_sensor_map)
                    THEN SensorStateListener(Here, entity_id, readings[entity_id].state,
                                             old_state)
                    ELSE Here} :
           Finish("sensor_state_change",
                  [AdjustArgs(0, readings, fp) EXCEPT !.device_id = entity_id],
                  IF ScheduledJob(R1) = <<>> THEN R1
                  ELSE AutoAdjustOffsetsForSensor(R1, ScheduledJob(R1)[1], readings, fp, plan))
    /\ UNCHANGED <<entry, home>>

\* the job of the offset-recalculation timer
DoAutoAdjustOffsetsAll ==
    /\ connector.tado # ""
    /\ \E readings \in RecomputeStates, fp \in {f \in FloatSides : f.near},
          plan \in RecomputePlans :
           Finish("auto_adjust_offsets_all", AdjustArgs(0, readings, fp),
                  AutoAdjustOffsetsAll(Here, readings, fp, plan))
    /\ UNCHANGED <<entry, home>>

RecomputeNext ==
    \/ DoSetupOk
    \/ DoSetRecomputeMaps
    \/ DoPollZones
    \/ SensorStateChange
    \/ DoAutoAdjustOffsetsAll
    \/ Return

RecomputeSpec == AdjustInit /\ [][RecomputeNext]_vars

----------------------------------------------------------------------------
(* C34, C35: which zones a trigger recalculates *)

\* the zones the last operation ran _auto_adjust_offsets for
Recalculated == {op.tr[i][3] : i \in {j \in 1..Len(op.tr) : op.tr[j][1] = "recalc"}}

\* the zones (integer keys) whose sensor set contains the sensor
ZonesOfSensor(sensor_id) ==
    {z \in DOMAIN connector.zone_sensor_map :
        /\ IntOf(z) # <<>>
        /\ \E j \in 1..Len(connector.zone_sensor_map[z]) :
              connector.zone_sensor_map[z][j] = sensor_id}

JobScheduled == \E i \in 1..Len(op.tr) : op.tr[i][1] = "job"

\* C34: a state change of a sensor that is in some zone's sensor set
\* schedules a recalculation of exactly the zones whose sensor set contains
\* it when the new state is a value, and schedules nothing when the new
\* state is missing, unavailable or unknown.
C34_SensorEventRecalculatesItsZones ==
    (/\ op.name = "sensor_state_change"
     /\ ZonesOfSensor(op.args.device_id) # {}
     /\ AllCallsAnswered)
        => IF op.args.readings[op.args.device_id].state \in {"", "unknown", "unavailable"}
           THEN ~JobScheduled /\ Recalculated = {}
           ELSE JobScheduled /\ Recalculated = ZonesOfSensor(op.args.device_id)

\* the zones (integer keys) of the zone-sensor map
IntegerZones == {z \in DOMAIN connector.zone_sensor_map : IntOf(z) # <<>>}

\* C35: auto_adjust_offsets_all and auto_adjust_offsets_for_sensor raise
\* nothing over a zone-sensor map with a non-integer zone id when the remote
\* answers every call: _auto_adjust_offsets is not run for that entry, and
\* it is run for every other zone of the map (for_sensor: every other zone
\* whose sensor set contains the sensor).
C35_MalformedZoneIdSkipped ==
    (op.name \in {"auto_adjust_offsets_all", "sensor_state_change"} /\ AllCallsAnswered)
        => /\ op.exc = NoExc
           /\ Recalculated \subseteq IntegerZones
           /\ op.name = "auto_adjust_offsets_all" => Recalculated = IntegerZones
           /\ (op.name = "sensor_state_change" /\ JobScheduled)
                 => Recalculated = ZonesOfSensor(op.args.device_id)

C35_Witness ==
    /\ op.name = "auto_adjust_offsets_all"
    /\ op.exc = NoExc
    /\ \E i, j \in 1..Len(op.tr) :
          /\ i < j
          /\ op.tr[i] = Ev("log", "invalid_zone_id", "x", "")
          /\ op.tr[j] = Ev("recalc", "_auto_adjust_offsets", "2", "")
    /\ \E k \in 1..Len(op.tr) : op.tr[k][1] = "adjust" /\ op.tr[k][3] = "RU1"

----------------------------------------------------------------------------
(* C36: the offsets get_device_offset returns and the remote's *)

\* C36: a value get_device_offset returns for a device is the offset this
\* connector last wrote successfully to the remote for it. In particular,
\* while the connector has written nothing (the pass over the configured
\* offsets has not begun and set_temperature_offset has recorded nothing),
\* get_device_offset returns no value for any device of the home.
C36_ReturnedOffsetWasWritten ==
    (~connector.static_pass_begun /\ runtime_set = EmptyDict)
        => \A d \in {NormalizeDevice(connector, raw, 0) : raw \in RawDevices} :
              GetDeviceOffset(connector, d) = <<>>

----------------------------------------------------------------------------
(* Offsets of devices known by their name *)

\* a radiator valve and a room unit of the same room: the listing gives them
\* no serial and no id, so their keys are built from the type and the name
HallValve == [BlankDevice EXCEPT !.deviceType = "VA02", !.name = "Hall", !.caps = TRUE]
HallUnit == [BlankDevice EXCEPT !.deviceType = "RU01", !.name = "Hall", !.caps = TRUE]

\* the identifiers the options give the two devices
HallIdOverrides == (<<"VA02", "Hall">> :> "VA1") @@ (<<"RU01", "Hall">> :> "RU1")

NamedInit ==
    /\ connector = NewConnector(EmptyDict, EmptyDict, EmptyDict, EmptyDict)
    /\ runtime_set = EmptyDict
    /\ op = Idle
    /\ entry = NotLoaded
    /\ home = [me |-> "PRE_LINE_X", listing |-> <<HallValve, HallUnit>>, mobiles |-> <<"M1">>]

DoSetHallIdOverrides ==
    /\ op = Idle
    /\ connector.device_id_overrides = EmptyDict
    /\ connector' = UpdateRuntimeOptions(connector,
           [device_id_overrides |-> HallIdOverrides,
            device_offsets |-> connector.device_offsets,
            device_zone_map |-> connector.device_zone_map,
            zone_sensor_map |-> connector.zone_sensor_map])
    /\ op' = [Idle EXCEPT !.name = "update_runtime_options"]
    /\ UNCHANGED <<runtime_set, entry, home>>

\* the calls of set_temperature_offset the offset entities of the two
\* devices make: the device's id, the value, the entity's device key
NamedOffsetArgs ==
    {[device_id |-> d.id, offset |-> v, device_key |-> d.key] :
        d \in {[id |-> "VA1", key |-> <<"VA02", "Hall">>],
               [id |-> "RU1", key |-> <<"RU01", "Hall">>]},
        v \in {30, 50}}

DoSetNamedOffset ==
    /\ connector.devices # <<>>
    /\ \E a \in NamedOffsetArgs :
         \E plan \in AtHome(FaultPlans({<<"set_temp_offset", a.device_id>>}, FaultKinds)) :
           Finish("set_temperature_offset", a,
                  SetTemperatureOffset(Here, a.device_id, a.offset, a.device_key, FALSE, plan))
    /\ UNCHANGED <<entry, home>>

NamedNext ==
    \/ DoSetHallIdOverrides
    \/ DoSetupOk
    \/ DoUpdateDevices
    \/ DoSetNamedOffset
    \/ Return

NamedSpec == NamedInit /\ [][NamedNext]_vars

----------------------------------------------------------------------------
(* C37: an offset write and the other devices *)

\* C37: a set_temperature_offset made for the device with key K leaves
\* unchanged what get_device_offset returns for every device whose device
\* key is not K.
C37_OffsetWriteLeavesOtherDevices ==
    [][(op.name = "idle" /\ op'.name = "set_temperature_offset"
          /\ op'.args.device_key # <<>>)
        => \A i \in 1..Len(connector.devices) :
              connector.devices[i].device_key # op'.args.device_key
                 => GetDeviceOffset(connector', connector.devices[i])
                      = GetDeviceOffset(connector, connector.devices[i])]_vars

----------------------------------------------------------------------------
(* C40: the log record of a counter reset *)

\* C40: the log record emitted when the counter is reset on a new date
\* carries the count the counter had reached before the reset.
C40_ResetLogCarriesPreviousCount ==
    [][\A i \in 1..Len(op'.tr) :
          (op.name = "idle" /\ op'.tr[i][1] = "log" /\ op'.tr[i][2] = "api_call_counter_reset")
             => /\ "count" \in DOMAIN op'.tr[i][4]
                /\ op'.tr[i][4].count = connector.api_call_count]_vars

----------------------------------------------------------------------------
(* The timers of a config entry: their registration by async_setup_entry,  *)
(* their replacement by _async_update_listener and their cancellation when *)
(* the entry is unloaded. A timer is a handle [kind, id]; entry.timers are *)
(* the handles the host will still fire.                                   *)

\* the handles issued to one entry
MaxTimers == 9

\* the values the interval options can hold; a value below 1 (or a missing
\* or malformed one) gives the default interval
IntervalOptions == {0, 30, 60}

\* int(option) with the fall-back to the default, which 0 stands for
ParseInterval(v) == IF v < 1 THEN 0 ELSE v

\* the entry before its first set-up: hass.data[DOMAIN][entry_id] is empty
TimerEntry ==
    [state |-> "not_loaded", options |-> [scan |-> 0, recalc |-> 0, fallback |-> "a"],
     timers |-> {}, on_unload |-> {}, issued |-> 0,
     data |-> [scan_interval |-> <<>>, update_unsub |-> <<>>,
               offset_recalc_interval |-> <<>>, offset_unsub |-> <<>>]]

\* the handle the next registration returns
NextTimer(e, kind) == [kind |-> kind, id |-> e.issued + 1]

\* an unsubscribe callback that cancels nothing
KeepTimer(E, unsub) == E

\* data[...]() of _async_update_listener: the stored unsubscribe callback is
\* called when there is one; E is the entry with the events so far
CancelTimer(E, unsub) ==
    IF unsub = <<>> THEN E
    ELSE [E EXCEPT !.e.timers = @ \ {unsub[1]},
                   !.tr = Append(@, Ev("cancel", unsub[1].kind, "", unsub[1].id))]

\* async_track_time_interval followed by entry.async_on_unload(unsub)
RegisterTimer(E, kind) ==
    [E EXCEPT !.e.timers = @ \cup {NextTimer(E.e, kind)},
              !.e.on_unload = @ \cup {NextTimer(E.e, kind)},
              !.e.issued = @ + 1,
              !.tr = Append(@, Ev("register", kind, "", E.e.issued + 1))]

\* the scan-interval block of _async_update_listener
RescheduleUpdate(E, scan_interval) ==
    IF <<scan_interval>> = E.e.data.scan_interval THEN E
    ELSE LET E1 == CancelTimer(E, E.e.data.update_unsub)
             E2 == RegisterTimer(E1, "update_timer")
         IN [E2 EXCEPT !.e.data.scan_interval = <<scan_interval>>,
                       !.e.data.update_unsub = <<NextTimer(E1.e, "update_timer")>>]

\* the offset-recalculation block of _async_update_listener
RescheduleOffset(E, offset_recalc_interval) ==
    IF <<offset_recalc_interval>> = E.e.data.offset_recalc_interval THEN E
    ELSE LET E1 == CancelTimer(E, E.e.data.offset_unsub)
             E2 == RegisterTimer(E1, "offset_timer")
         IN [E2 EXCEPT !.e.data.offset_recalc_interval = <<offset_recalc_interval>>,
                       !.e.data.offset_unsub = <<NextTimer(E1.e, "offset_timer")>>]

\* the registrations of async_setup_entry after the first update
RegisterTriggers(E) ==
    LET E1 == RegisterTimer(E, "update_timer")
        E2 == RegisterTimer(E1, "offset_timer")
        E3 == RegisterTimer(E2, "mobile_timer")
    IN [E3 EXCEPT !.e.state = "loaded",
           !.e.data = [scan_interval |-> <<ParseInterval(E.e.options.scan)>>,
                       update_unsub |-> <<NextTimer(E.e, "update_timer")>>,
                       offset_recalc_interval |-> <<ParseInterval(E.e.options.recalc)>>,
                       offset_unsub |-> <<NextTimer(E1.e, "offset_timer")>>]]

\* the host runs the callbacks handed to entry.async_on_unload
ProcessOnUnload(e) == [e EXCEPT !.timers = @ \ e.on_unload, !.on_unload = {}]

TimerInit ==
    /\ connector = NewConnector(EmptyDict, EmptyDict, EmptyDict, EmptyDict)
    /\ runtime_set = EmptyDict
    /\ op = Idle
    /\ entry = TimerEntry
    /\ home = [me |-> "PRE_LINE_X", listing |-> <<RawVA>>, mobiles |-> <<"M1">>]

\* async_setup_entry from the call of tadoconnector.setup on (line 415), on
\* a connector newly constructed: the triggers are registered when setup()
\* and the first update() have succeeded
TimerSetupEntry ==
    /\ op = Idle
    /\ entry.state \in {"not_loaded", "unloaded"}
    /\ entry.issued + 3 <= MaxTimers
    /\ \E plan \in AtHome(FaultPlans({<<"get_me", "">>}, {"Timeout"})) :
         \E R \in {Update(Setup(Ctx(NewConnector(EmptyDict, EmptyDict, EmptyDict, EmptyDict),
                                    EmptyDict), plan), plan)} :
           \E E \in {IF R.exc = NoExc THEN RegisterTriggers([e |-> entry, tr |-> R.tr])
                     ELSE [e |-> entry, tr |-> R.tr]} :
             /\ connector' = SameCounter(R.c)
             /\ runtime_set' = R.rs
             /\ op' = [name |-> "async_setup_entry",
                       exc |-> IF R.exc = NoExc THEN NoExc
                               ELSE SetupLadder(R.exc, plan.status),
                       tr |-> E.tr, args |-> NoArgs]
             /\ entry' = E.e
    /\ UNCHANGED home

\* the options flow stores new options and the host calls
\* _async_update_listener: a reload when the fallback changed, else the
\* timers whose interval changed are replaced
OptionsUpdated ==
    /\ op = Idle
    /\ entry.state = "loaded"
    /\ entry.issued + 2 <= MaxTimers
    /\ \E scan \in IntervalOptions, recalc \in IntervalOptions, fallback \in {"a", "b"} :
         \E e \in {[entry EXCEPT !.options = [scan |-> scan, recalc |-> recalc,
                                             fallback |-> fallback]]} :
           IF fallback # entry.options.fallback
           THEN /\ entry' = [ProcessOnUnload(e) EXCEPT !.state = "unloaded"]
                /\ op' = [Idle EXCEPT !.name = "async_reload"]
                /\ UNCHANGED connector
           ELSE \E E \in {RescheduleOffset(
                              RescheduleUpdate([e |-> e, tr |-> <<>>], ParseInterval(scan)),
                              ParseInterval(recalc))} :
                  /\ entry' = E.e
                  /\ op' = [Idle EXCEPT !.name = "options_updated", !.tr = E.tr]
                  /\ connector' = UpdateRuntimeOptions(connector,
                         [device_id_overrides |-> connector.device_id_overrides,
                          device_offsets |-> connector.device_offsets,
                          device_zone_map |-> connector.device_zone_map,
                          zone_sensor_map |-> connector.zone_sensor_map])
    /\ UNCHANGED <<runtime_set, home>>

\* async_unload_entry and the host's teardown
TimerUnloadEntry ==
    /\ op = Idle
    /\ entry.state = "loaded"
    /\ entry' = [ProcessOnUnload(entry) EXCEPT !.state = "unloaded"]
    /\ op' = [Idle EXCEPT !.name = "async_unload_entry"]
    /\ UNCHANGED <<connector, runtime_set, home>>

TimerNext ==
    \/ TimerSetupEntry
    \/ OptionsUpdated
    \/ TimerUnloadEntry
    \/ Return

TimerSpec == TimerInit /\ [][TimerNext]_vars

----------------------------------------------------------------------------
(* C39: one timer of each kind *)

\* the active timers of a kind among the handles `timers`
OfKind(timers, kind) == {h \in timers : h.kind = kind}

\* the positions in the events `tr` where a timer of the kind is registered
Registrations(tr, kind) ==
    {i \in 1..Len(tr) : tr[i][1] = "register" /\ tr[i][2] = kind}

\* C39: after every step at most one full-poll timer and at most one
\* offset-recalculation timer are active; and when _async_update_listener
\* has handled an options change, a timer kind whose interval did not
\* change has the same timers as before and no registration, while a kind
\* that got a new timer had its old timer cancelled before the registration.
C39_OneTimerOfEachKind ==
    [][/\ Cardinality(OfKind(entry'.timers, "update_timer")) <= 1
       /\ Cardinality(OfKind(entry'.timers, "offset_timer")) <= 1
       /\ (op.name = "idle" /\ op'.name = "options_updated")
            => /\ OfKind(entry'.timers, "mobile_timer") = OfKind(entry.timers, "mobile_timer")
               /\ <<ParseInterval(entry'.options.scan)>> = entry.data.scan_interval
                     => /\ Registrations(op'.tr, "update_timer") = {}
                        /\ OfKind(entry'.timers, "update_timer")
                             = OfKind(entry.timers, "update_timer")
               /\ <<ParseInterval(entry'.options.recalc)>> = entry.data.offset_recalc_interval
                     => /\ Registrations(op'.tr, "offset_timer") = {}
                        /\ OfKind(entry'.timers, "offset_timer")
                             = OfKind(entry.timers, "offset_timer")
               /\ \A kind \in {"update_timer", "offset_timer"} :
                    \A j \in Registrations(op'.tr, kind) :
                       \A old \in OfKind(entry.timers, kind) :
                          \E i \in 1..(j - 1) : op'.tr[i] = Ev("cancel", kind, "", old.id)]_vars

C39_Witness ==
    /\ op.name = "options_updated"
    /\ op.tr = <<Ev("cancel", "update_timer", "", 1), Ev("register", "update_timer", "", 4)>>
    /\ entry.timers = {[kind |-> "update_timer", id |-> 4], [kind |-> "offset_timer", id |-> 2],
                       [kind |-> "mobile_timer", id |-> 3]}

----------------------------------------------------------------------------
(* The triggers' jobs on the executor's threads: each remote call they make *)
(* goes through _track_api_call, whose increment of the counter is a read   *)
(* and a later store with no lock around them.                              *)

\* the triggers whose jobs make remote calls: the mobile-device poll and the
\* recalculations started by the timer and by the sensor listener
CallingTriggers == {"mobile_timer", "offset_timer", "sensor_listener"}

\* entry.pc: where each job stands in _track_api_call; entry.seen: the count
\* it read; entry.issued: the calls made on the current date
RaceEntry ==
    [state |-> "loaded", pc |-> [t \in CallingTriggers |-> "idle"],
     seen |-> [t \in CallingTriggers |-> 0], issued |-> 0]

RaceInit ==
    /\ connector = NewConnector(EmptyDict, EmptyDict, EmptyDict, EmptyDict)
    /\ runtime_set = EmptyDict
    /\ op = Idle
    /\ entry = RaceEntry
    /\ home = [me |-> "PRE_LINE_X", listing |-> <<RawVA>>, mobiles |-> <<"M1">>, today |-> 0]

\* _track_api_call up to the read of self._api_call_count: the reset check
\* has run and the job holds the count it read
TrackApiCallReads(t) ==
    /\ entry.pc[t] = "idle"
    /\ entry.issued + Cardinality({u \in CallingTriggers : entry.pc[u] = "read"}) < MaxCalls
    /\ connector' = ResetApiCallCounterIfNeeded(HereToday).c
    /\ entry' = [entry EXCEPT !.pc[t] = "read",
                              !.seen[t] = ResetApiCallCounterIfNeeded(HereToday).c.api_call_count]
    /\ UNCHANGED <<runtime_set, op, home>>

\* the rest of _track_api_call and of _api_call: the job stores the count it
\* read plus one, and makes the remote call
TrackApiCallStores(t) ==
    /\ entry.pc[t] = "read"
    /\ connector' = [connector EXCEPT !.api_call_count = entry.seen[t] + 1]
    /\ entry' = [entry EXCEPT !.pc[t] = "idle", !.issued = @ + 1]
    /\ UNCHANGED <<runtime_set, op, home>>

\* the local date changes while no job is inside _track_api_call
RaceMidnight ==
    /\ \A t \in CallingTriggers : entry.pc[t] = "idle"
    /\ home.today < MaxDays
    /\ home' = [home EXCEPT !.today = @ + 1]
    /\ entry' = [entry EXCEPT !.issued = 0]
    /\ UNCHANGED <<connector, runtime_set, op>>

RaceNext ==
    \/ \E t \in CallingTriggers : TrackApiCallReads(t)
    \/ \E t \in CallingTriggers : TrackApiCallStores(t)
    \/ RaceMidnight

RaceSpec == RaceInit /\ [][RaceNext]_vars

----------------------------------------------------------------------------
(* C38: no increment of the counter is lost *)

\* C38: whenever no job is inside _track_api_call and the counter's date is
\* the current date, the counter equals the number of calls the concurrent
\* jobs made on that date.
C38_NoIncrementLost ==
    (/\ \A t \in CallingTriggers : entry.pc[t] = "idle"
     /\ connector.api_call_date = home.today)
        => connector.api_call_count = entry.issued

====
